---- MODULE Spec2Model ----
(***************************************************************************)
(* A model of the reddit-stock-predictor pipeline:                         *)
(*   src/scrape_posts.py        ingestion of subreddits into Postgres      *)
(*   src/sentiment_organizer.py sentiment scoring and daily aggregation    *)
(*                                                                         *)
(* Text (titles, bodies, user names, ticker symbols) is a tuple of         *)
(* one-character strings, so that the regular expression of the ticker     *)
(* extractor and the "u_" prefix of author names act on characters.        *)
(* A nullable column holds <<>> for SQL NULL and <<v>> for the value v.     *)
(* Tables are sequences of rows in insertion order; uniqueness is what the *)
(* ON CONFLICT clauses of the statements make of it.                       *)
(***************************************************************************)
EXTENDS Integers, Sequences, FiniteSets, TLC

VARIABLES
    db,      \* the committed contents of the Postgres store
    tx,      \* the store as the open connection sees it (db plus uncommitted writes)
    seqs,    \* the id sequences of the tables (not transactional)
    drv,     \* scrape_posts.py __main__: [pc, idx, runs, w]
    pass,    \* scrape_subreddit's frame: position and local variables
    issued,  \* history: the (table, value, id) triples upsert_ref has returned
    now,     \* the wall clock
    sc,      \* sentiment_organizer.py: score_table's frame
    ext,     \* a caller of extract_tickers: its argument and what it got
    tv       \* scripts/ticker_verification.py: build's and fetch's frames

vars == <<db, tx, seqs, drv, pass, issued, now, sc, ext, tv>>

-----------------------------------------------------------------------------
(* Bounds of the model *)

\* longest text given to extract_tickers on its own
MaxLen == 6

\* most data lines in the body of a listing feed
MaxRows == 2

\* number of times the scraper process is started
MaxRuns == 2
\* clock ticks per UTC calendar day
DayLen == 2

-----------------------------------------------------------------------------
(* Program constants *)

TARGET_SUBREDDITS == <<"stocks", "wallstreetbets", "investing">>

\* scrape_subreddit(name, limit=200)
HOT_LIMIT == 200

\* TICKER_RE = \b[A-Z]{1,5}\b
TICKER_MIN == 1
TICKER_MAX == 5

\* fetch_for_scoring(..., since_days=14)
SINCE_DAYS == 14

\* build: 1 <= len(sym) <= 5
SYMBOL_MAX == 5

\* fetch(url, retries=3, timeout=30)
RETRIES == 3

-----------------------------------------------------------------------------
(* Characters and text *)

UPPER == {"A","B","C","D","E","F","G","H","I","J","K","L","M",
          "N","O","P","Q","R","S","T","U","V","W","X","Y","Z"}
LOWER == {"a","b","c","d","e","f","g","h","i","j","k","l","m",
          "n","o","p","q","r","s","t","u","v","w","x","y","z"}
DIGITS == {"0","1","2","3","4","5","6","7","8","9"}

Range(s) == {s[i] : i \in DOMAIN s}

Max(S) == CHOOSE x \in S : \A y \in S : y <= x

Min2(a, b) == IF a <= b THEN a ELSE b

\* every enumeration of the finite set S without repetition
Orderings(S) ==
    {o \in [1..Cardinality(S) -> S] : \A i, j \in DOMAIN o : i # j => o[i] # o[j]}

Reverse(s) == [i \in DOMAIN s |-> s[Len(s) + 1 - i]]

\* str.isalpha() on ASCII text
isalpha(t) == Len(t) > 0 /\ \A i \in DOMAIN t : t[i] \in UPPER \cup LOWER

\* \w of the re module
IsWordChar(c) == c \in UPPER \cup LOWER \cup DIGITS \cup {"_"}

\* \b between text[i-1] and text[i], for i in 1..Len(text)+1
WordBoundary(text, i) ==
    LET before == i > 1 /\ IsWordChar(text[i - 1])
        after  == i <= Len(text) /\ IsWordChar(text[i])
    IN  before # after

\* a pattern without the closing \b
TICKER_RE_Open(text, i) ==
    LET lens == {n \in TICKER_MIN..TICKER_MAX :
                    /\ i + n - 1 <= Len(text)
                    /\ \A k \in i..(i + n - 1) : text[k] \in UPPER}
    IN  IF WordBoundary(text, i) /\ lens # {} THEN Max(lens) ELSE 0

\* length of the (greedy) match of TICKER_RE that starts at i, 0 when none
TICKER_RE(text, i) ==
    LET lens == {n \in TICKER_MIN..TICKER_MAX :
                    /\ i + n - 1 <= Len(text)
                    /\ \A k \in i..(i + n - 1) : text[k] \in UPPER
                    /\ WordBoundary(text, i + n)}
    IN  IF WordBoundary(text, i) /\ lens # {} THEN Max(lens) ELSE 0

\* TICKER_RE.findall(text): the non-overlapping matches, left to right, from i
RECURSIVE findall(_, _)
findall(text, i) ==
    IF i > Len(text) THEN <<>>
    ELSE LET n == TICKER_RE(text, i)
         IN  IF n > 0 THEN <<SubSeq(text, i, i + n - 1)>> \o findall(text, i + n)
             ELSE findall(text, i + 1)

extract_tickers(text) ==
    IF Len(text) = 0 THEN {}
    ELSE {t \in Range(findall(text, 1)) : isalpha(t)}

-----------------------------------------------------------------------------
(* The upstream content source (praw): what reddit yields.  A world w is a *)
(* snapshot of reddit, the one a run of the scraper sees; between two runs  *)
(* scores move, texts are edited and an account is deleted.                *)

Worlds == {1, 2}

Alice     == <<"a","l">>
Bob       == <<"b","o","b">>
\* a real account whose name is "deleted"
MrDeleted == <<"d","e","l","e","t","e","d">>
\* p.author is None
NoAuthor  == <<>>

GME == <<"G","M","E">>
AMC == <<"A","M","C">>

TitleP1 == <<"G","M","E"," ","t","o"," ","t","h","e"," ","m","o","o","n"," ","A","M","C">>
BodyC1  == GME
BodyC1Edited == AMC
SelftextP1Edited == <<"s","o","l","d">>
BodyC2  == <<"t","o"," ","t","h","e"," ","m","o","o","n">>
TitleP2 == <<"b","u","y"," ","G","M","E">>

C1(w) == [id |-> "c1", author |-> Bob,
          body |-> IF w = 1 THEN BodyC1 ELSE BodyC1Edited,
          score |-> IF w = 1 THEN 2 ELSE 0,
          created_utc |-> DayLen + 1, parent_id |-> "t3_p1"]

C2(w) == [id |-> "c2", author |-> MrDeleted, body |-> BodyC2, score |-> 1,
          created_utc |-> 2 * DayLen, parent_id |-> "t1_c1"]

P1(w) == [id |-> "p1", subreddit |-> "stocks",
          author |-> IF w = 1 THEN Alice ELSE NoAuthor,
          title |-> TitleP1,
          selftext |-> IF w = 1 THEN <<>> ELSE SelftextP1Edited,
          url |-> "url_p1", permalink |-> "/r/stocks/p1",
          score |-> IF w = 1 THEN 10 ELSE -1,
          num_comments |-> IF w = 1 THEN 2 ELSE 3,
          created_utc |-> DayLen,
          comments |-> <<C1(w), C2(w)>>]

P2(w) == [id |-> "p2", subreddit |-> "wallstreetbets", author |-> Alice,
          title |-> TitleP2, selftext |-> <<>>,
          url |-> "url_p2", permalink |-> "/r/wallstreetbets/p2",
          score |-> 3, num_comments |-> 0,
          created_utc |-> 1,
          comments |-> <<>>]

\* the world in which the source holds the post p1 alone
SinglePost == {3}

\* reddit.subreddit(name).hot(limit=limit) in world w
hot(name, limit, w) ==
    LET all == IF name = "stocks" THEN <<P1(IF w \in SinglePost THEN 1 ELSE w)>>
               ELSE IF name = "wallstreetbets" /\ w \notin SinglePost THEN <<P2(w)>>
               ELSE <<>>
    IN  SubSeq(all, 1, Min2(limit, Len(all)))

\* str(x.author)
str_author(a) == IF a = NoAuthor THEN <<"N","o","n","e">> ELSE a

\* f"u_{x.author.name}" if getattr(x.author, "name", None) else "u_deleted"
author_name(a) ==
    IF Len(a) > 0 THEN <<"u","_">> \o a
    ELSE <<"u","_","d","e","l","e","t","e","d">>

-----------------------------------------------------------------------------
(* The relational store *)

EmptyStore ==
    [subreddits |-> <<>>, authors |-> <<>>, tickers |-> <<>>,
     posts |-> <<>>, comments |-> <<>>,
     post_tickers |-> <<>>, comment_tickers |-> <<>>,
     post_sentiment |-> <<>>, comment_sentiment |-> <<>>,
     daily_sentiment |-> <<>>]

EmptySeqs ==
    [subreddits |-> 0, authors |-> 0, tickers |-> 0, posts |-> 0, comments |-> 0]

\* conn.commit(): the connection's writes become the committed store
Commit(committed, view) == view

\* a rollback that drops nothing
Rollback_KeepsWrites(committed, view) == view

\* conn.rollback(): the connection's writes are dropped
Rollback(committed, view) == committed

\* an upsert without its ON CONFLICT clause: always a new row
upsert_ref_NoConflict(st, sq, table, value) ==
    [st |-> [st EXCEPT ![table] = Append(@, [id |-> sq[table] + 1, val |-> value])],
     sq |-> [sq EXCEPT ![table] = @ + 1],
     id |-> sq[table] + 1]

\* INSERT INTO {table} ({unique_col}) VALUES (value)
\* ON CONFLICT ({unique_col}) DO UPDATE SET {unique_col}=EXCLUDED.{unique_col}
\* RETURNING id.  The id default draws from the table's sequence before the
\* conflict is detected, and a sequence is never rolled back.
upsert_ref(st, sq, table, value) ==
    LET nid == sq[table] + 1
        hit == {i \in DOMAIN st[table] : st[table][i].val = value}
    IN  IF hit = {}
        THEN [st |-> [st EXCEPT ![table] = Append(@, [id |-> nid, val |-> value])],
              sq |-> [sq EXCEPT ![table] = nid],
              id |-> nid]
        ELSE [st |-> [st EXCEPT ![table] =
                        [i \in DOMAIN @ |->
                            IF i \in hit THEN [@[i] EXCEPT !.val = value] ELSE @[i]]],
              sq |-> [sq EXCEPT ![table] = nid],
              id |-> st[table][CHOOSE i \in hit : TRUE].id]

\* datetime.fromtimestamp(created_utc, tz=timezone.utc): the same instant
fromtimestamp(t) == t

\* an upsert whose DO UPDATE also overwrites the content columns
upsert_post_RefreshAll(st, sq, p, subreddit_id, author_id) ==
    LET nid == sq.posts + 1
        hit == {i \in DOMAIN st.posts : st.posts[i].reddit_id = p.id}
        row(id) ==
               [id |-> id, reddit_id |-> p.id, subreddit_id |-> subreddit_id,
                author_id |-> author_id, title |-> p.title, selftext |-> p.selftext,
                url |-> p.url, permalink |-> p.permalink, score |-> p.score,
                num_comments |-> p.num_comments,
                created_utc |-> fromtimestamp(p.created_utc),
                raw_json |-> [id |-> p.id, subreddit |-> p.subreddit,
                              author |-> str_author(p.author), title |-> p.title,
                              selftext |-> p.selftext, url |-> p.url,
                              permalink |-> p.permalink, score |-> p.score,
                              num_comments |-> p.num_comments]]
    IN  IF hit = {}
        THEN [st |-> [st EXCEPT !.posts = Append(@, row(nid))],
              sq |-> [sq EXCEPT !.posts = nid], id |-> nid]
        ELSE [st |-> [st EXCEPT !.posts =
                        [i \in DOMAIN @ |-> IF i \in hit THEN row(@[i].id) ELSE @[i]]],
              sq |-> [sq EXCEPT !.posts = nid],
              id |-> st.posts[CHOOSE i \in hit : TRUE].id]

upsert_post(st, sq, p, subreddit_id, author_id) ==
    LET nid == sq.posts + 1
        raw == [id |-> p.id, subreddit |-> p.subreddit, author |-> str_author(p.author),
                title |-> p.title, selftext |-> p.selftext, url |-> p.url,
                permalink |-> p.permalink, score |-> p.score,
                num_comments |-> p.num_comments]
        excluded ==
               [id |-> nid, reddit_id |-> p.id, subreddit_id |-> subreddit_id,
                author_id |-> author_id, title |-> p.title, selftext |-> p.selftext,
                url |-> p.url, permalink |-> p.permalink, score |-> p.score,
                num_comments |-> p.num_comments,
                created_utc |-> fromtimestamp(p.created_utc), raw_json |-> raw]
        hit == {i \in DOMAIN st.posts : st.posts[i].reddit_id = p.id}
    IN  IF hit = {}
        THEN [st |-> [st EXCEPT !.posts = Append(@, excluded)],
              sq |-> [sq EXCEPT !.posts = nid],
              id |-> nid]
        ELSE [st |-> [st EXCEPT !.posts =
                        [i \in DOMAIN @ |->
                            IF i \in hit
                            THEN [@[i] EXCEPT !.score = excluded.score,
                                              !.num_comments = excluded.num_comments]
                            ELSE @[i]]],
              sq |-> [sq EXCEPT !.posts = nid],
              id |-> st.posts[CHOOSE i \in hit : TRUE].id]

\* a comment upsert whose conflict branch also stores the new payload
upsert_comment_RefreshRaw(st, sq, c, post_id, author_id, parent_comment_id) ==
    LET nid == sq.comments + 1
        raw == [id |-> c.id, post_id |-> post_id, author |-> str_author(c.author),
                body |-> c.body, score |-> c.score, created_utc |-> c.created_utc]
        hit == {i \in DOMAIN st.comments : st.comments[i].reddit_id = c.id}
    IN  IF hit = {}
        THEN [st |-> [st EXCEPT !.comments = Append(@,
                        [id |-> nid, reddit_id |-> c.id, post_id |-> post_id,
                         author_id |-> author_id, body |-> c.body, score |-> c.score,
                         created_utc |-> fromtimestamp(c.created_utc),
                         parent_comment_id |-> parent_comment_id, raw_json |-> raw])],
              sq |-> [sq EXCEPT !.comments = nid],
              id |-> nid]
        ELSE [st |-> [st EXCEPT !.comments =
                        [i \in DOMAIN @ |->
                            IF i \in hit
                            THEN [@[i] EXCEPT !.score = c.score, !.raw_json = raw]
                            ELSE @[i]]],
              sq |-> [sq EXCEPT !.comments = nid],
              id |-> st.comments[CHOOSE i \in hit : TRUE].id]

upsert_comment(st, sq, c, post_id, author_id, parent_comment_id) ==
    LET nid == sq.comments + 1
        raw == [id |-> c.id, post_id |-> post_id, author |-> str_author(c.author),
                body |-> c.body, score |-> c.score, created_utc |-> c.created_utc]
        excluded ==
               [id |-> nid, reddit_id |-> c.id, post_id |-> post_id,
                author_id |-> author_id, body |-> c.body, score |-> c.score,
                created_utc |-> fromtimestamp(c.created_utc),
                parent_comment_id |-> parent_comment_id, raw_json |-> raw]
        hit == {i \in DOMAIN st.comments : st.comments[i].reddit_id = c.id}
    IN  IF hit = {}
        THEN [st |-> [st EXCEPT !.comments = Append(@, excluded)],
              sq |-> [sq EXCEPT !.comments = nid],
              id |-> nid]
        ELSE [st |-> [st EXCEPT !.comments =
                        [i \in DOMAIN @ |->
                            IF i \in hit
                            THEN [@[i] EXCEPT !.score = excluded.score]
                            ELSE @[i]]],
              sq |-> [sq EXCEPT !.comments = nid],
              id |-> st.comments[CHOOSE i \in hit : TRUE].id]

\* a link insert without ON CONFLICT DO NOTHING
insert_post_ticker_Always(rows, post_id, tid) ==
    Append(rows, [post_id |-> post_id, ticker_id |-> tid])

\* INSERT INTO post_tickers (post_id, ticker_id) VALUES (..) ON CONFLICT DO NOTHING
insert_post_ticker(rows, post_id, tid) ==
    IF \E i \in DOMAIN rows : rows[i].post_id = post_id /\ rows[i].ticker_id = tid
    THEN rows
    ELSE Append(rows, [post_id |-> post_id, ticker_id |-> tid])

\* a comment link insert that replaces the comment's earlier links
insert_comment_ticker_Replace(rows, comment_id, tid) ==
    Append(SelectSeq(rows, LAMBDA l : l.comment_id # comment_id),
           [comment_id |-> comment_id, ticker_id |-> tid])

\* a comment link insert that ignores the unique pair
insert_comment_ticker_Always(rows, comment_id, tid) ==
    Append(rows, [comment_id |-> comment_id, ticker_id |-> tid])

\* INSERT INTO comment_tickers (comment_id, ticker_id) VALUES (..) ON CONFLICT DO NOTHING
insert_comment_ticker(rows, comment_id, tid) ==
    IF \E i \in DOMAIN rows : rows[i].comment_id = comment_id /\ rows[i].ticker_id = tid
    THEN rows
    ELSE Append(rows, [comment_id |-> comment_id, ticker_id |-> tid])

\* for sym in syms: ...  with syms visited in the order `order`
RECURSIVE link_post_tickers(_, _, _, _)
link_post_tickers(st, sq, post_id, order) ==
    IF order = <<>> THEN [st |-> st, sq |-> sq, log |-> {}]
    ELSE LET r    == upsert_ref(st, sq, "tickers", Head(order))
             st2  == [r.st EXCEPT !.post_tickers = insert_post_ticker(@, post_id, r.id)]
             rest == link_post_tickers(st2, r.sq, post_id, Tail(order))
         IN  [st |-> rest.st, sq |-> rest.sq,
              log |-> {<<"tickers", Head(order), r.id>>} \cup rest.log]

\* the loop over syms in scrape_comments_for_post
RECURSIVE link_comment_tickers(_, _, _, _)
link_comment_tickers(st, sq, comment_id, order) ==
    IF order = <<>> THEN [st |-> st, sq |-> sq, log |-> {}]
    ELSE LET r    == upsert_ref(st, sq, "tickers", Head(order))
             st2  == [r.st EXCEPT !.comment_tickers =
                                     insert_comment_ticker(@, comment_id, r.id)]
             rest == link_comment_tickers(st2, r.sq, comment_id, Tail(order))
         IN  [st |-> rest.st, sq |-> rest.sq,
              log |-> {<<"tickers", Head(order), r.id>>} \cup rest.log]

-----------------------------------------------------------------------------
(* scrape_posts.py: the scraper process, statement by statement *)

NoPass == [pc |-> "none", name |-> "", w |-> 0, pi |-> 0, ci |-> 0,
           subreddit_id |-> 0, author_id |-> 0, post_id |-> 0, comment_id |-> 0]

\* the posts the listing of the current pass yields
Listing == hot(pass.name, HOT_LIMIT, pass.w)

\* submission.comments.list() of the current post
Comments == Listing[pass.pi].comments

\* (p.title or "") + " " + (p.selftext or "")
post_text(p) == p.title \o <<" ">> \o p.selftext

NoIssued == [tx |-> {}, ok |-> {}, rb |-> {}]

\* history bookkeeping: calls made, committed and rolled back
IssuedCall(log)  == [issued EXCEPT !.tx = @ \cup log]
IssuedCommit     == [issued EXCEPT !.ok = @ \cup issued.tx, !.tx = {}]
IssuedRollback   == [issued EXCEPT !.rb = @ \cup issued.tx, !.tx = {}]

\* python scrape_posts.py: the process starts and opens its connection;
\* w is the state of reddit during this run
DriverStart(w) ==
    /\ drv.pc \in {"idle", "done", "failed"}
    /\ drv.runs < MaxRuns
    /\ sc.pc = "idle"
    /\ drv' = [pc |-> "loop", idx |-> 0, runs |-> drv.runs + 1, w |-> w]
    /\ tx' = db
    /\ UNCHANGED <<ext, tv, db, seqs, pass, issued, now, sc>>

\* for s in TARGET_SUBREDDITS: scrape_subreddit(s) -- entering `with conn`
PassBegin ==
    /\ drv.pc = "loop"
    /\ pass.pc = "none"
    /\ drv.idx < Len(TARGET_SUBREDDITS)
    /\ drv' = [drv EXCEPT !.idx = @ + 1]
    /\ pass' = [NoPass EXCEPT !.pc = "start",
                              !.name = TARGET_SUBREDDITS[drv.idx + 1],
                              !.w = drv.w]
    /\ UNCHANGED <<ext, tv, db, tx, seqs, issued, now, sc>>

\* subreddit_id = upsert_ref(cur, "subreddits", "name", name)
ResolveSubreddit ==
    /\ pass.pc = "start"
    /\ LET r == upsert_ref(tx, seqs, "subreddits", pass.name)
       IN  /\ tx' = r.st
           /\ seqs' = r.sq
           /\ pass' = [pass EXCEPT !.pc = "subreddit-resolved", !.subreddit_id = r.id]
           /\ issued' = IssuedCall({<<"subreddits", pass.name, r.id>>})
    /\ UNCHANGED <<ext, tv, db, drv, now, sc>>

\* for p in hot(): author_id = upsert_ref(cur, "authors", "username", author_name)
ResolveAuthor ==
    /\ pass.pc \in {"subreddit-resolved", "comments-ingested"}
    /\ pass.pi < Len(Listing)
    /\ LET p == Listing[pass.pi + 1]
           r == upsert_ref(tx, seqs, "authors", author_name(p.author))
       IN  /\ tx' = r.st
           /\ seqs' = r.sq
           /\ pass' = [pass EXCEPT !.pc = "author-resolved", !.pi = @ + 1,
                                   !.ci = 0, !.author_id = r.id]
           /\ issued' = IssuedCall({<<"authors", author_name(p.author), r.id>>})
    /\ UNCHANGED <<ext, tv, db, drv, now, sc>>

\* post_id = upsert_post(cur, p, subreddit_id, author_id)
UpsertPost ==
    /\ pass.pc = "author-resolved"
    /\ LET r == upsert_post(tx, seqs, Listing[pass.pi], pass.subreddit_id, pass.author_id)
       IN  /\ tx' = r.st
           /\ seqs' = r.sq
           /\ pass' = [pass EXCEPT !.pc = "post-upserted", !.post_id = r.id]
    /\ UNCHANGED <<ext, tv, db, drv, issued, now, sc>>

\* syms = extract_tickers(..); if syms: link_post_tickers(cur, post_id, syms)
\* (a Python set is iterated in an unspecified order)
LinkPostTickers ==
    /\ pass.pc = "post-upserted"
    /\ \E order \in Orderings(extract_tickers(post_text(Listing[pass.pi]))) :
         LET r == link_post_tickers(tx, seqs, pass.post_id, order)
         IN  /\ tx' = r.st
             /\ seqs' = r.sq
             /\ issued' = IssuedCall(r.log)
    /\ pass' = [pass EXCEPT !.pc = "tickers-linked"]
    /\ UNCHANGED <<ext, tv, db, drv, now, sc>>

\* for c in comments: author_id = upsert_ref(cur, "authors", "username", author_name)
CommentAuthor ==
    /\ pass.pc \in {"tickers-linked", "comment-linked"}
    /\ pass.ci < Len(Comments)
    /\ LET c == Comments[pass.ci + 1]
           r == upsert_ref(tx, seqs, "authors", author_name(c.author))
       IN  /\ tx' = r.st
           /\ seqs' = r.sq
           /\ pass' = [pass EXCEPT !.pc = "comment-author", !.ci = @ + 1,
                                   !.author_id = r.id]
           /\ issued' = IssuedCall({<<"authors", author_name(c.author), r.id>>})
    /\ UNCHANGED <<ext, tv, db, drv, now, sc>>

\* parent_comment_id = None (whether or not c.parent_id starts with "t1_");
\* comment_id = upsert_comment(cur, c, post_id, author_id, parent_comment_id)
UpsertComment ==
    /\ pass.pc = "comment-author"
    /\ LET r == upsert_comment(tx, seqs, Comments[pass.ci], pass.post_id,
                               pass.author_id, <<>>)
       IN  /\ tx' = r.st
           /\ seqs' = r.sq
           /\ pass' = [pass EXCEPT !.pc = "comment-upserted", !.comment_id = r.id]
    /\ UNCHANGED <<ext, tv, db, drv, issued, now, sc>>

\* syms = extract_tickers(c.body); if syms: for sym in syms: ...
LinkCommentTickers ==
    /\ pass.pc = "comment-upserted"
    /\ \E order \in Orderings(extract_tickers(Comments[pass.ci].body)) :
         LET r == link_comment_tickers(tx, seqs, pass.comment_id, order)
         IN  /\ tx' = r.st
             /\ seqs' = r.sq
             /\ issued' = IssuedCall(r.log)
    /\ pass' = [pass EXCEPT !.pc = "comment-linked"]
    /\ UNCHANGED <<ext, tv, db, drv, now, sc>>

\* the loop over the comments ends: scrape_comments_for_post returns
CommentsDone ==
    /\ pass.pc \in {"tickers-linked", "comment-linked"}
    /\ pass.ci = Len(Comments)
    /\ pass' = [pass EXCEPT !.pc = "comments-ingested"]
    /\ UNCHANGED <<ext, tv, db, tx, seqs, drv, issued, now, sc>>

\* a pass that commits wherever it stands
PassCommit_Early ==
    /\ pass.pc # "none"
    /\ db' = Commit(db, tx)
    /\ pass' = NoPass
    /\ issued' = IssuedCommit
    /\ UNCHANGED <<ext, tv, tx, seqs, drv, now, sc>>

\* a pass that leaves its commit to the end of the run
PassCommit_Deferred ==
    /\ pass.pc \in {"subreddit-resolved", "comments-ingested"}
    /\ pass.pi = Len(Listing)
    /\ pass' = NoPass
    /\ UNCHANGED <<ext, tv, db, tx, seqs, drv, issued, now, sc>>

\* the loop over the posts ends: `with conn` exits normally and commits
PassCommit ==
    /\ pass.pc \in {"subreddit-resolved", "comments-ingested"}
    /\ pass.pi = Len(Listing)
    /\ db' = Commit(db, tx)
    /\ pass' = NoPass
    /\ issued' = IssuedCommit
    /\ UNCHANGED <<ext, tv, tx, seqs, drv, now, sc>>

\* any statement of the pass raises: `with conn` rolls back and the exception
\* leaves scrape_subreddit and the for loop of __main__
PassRaise ==
    /\ pass.pc # "none"
    /\ tx' = Rollback(db, tx)
    /\ pass' = NoPass
    /\ drv' = [drv EXCEPT !.pc = "except"]
    /\ issued' = IssuedRollback
    /\ UNCHANGED <<ext, tv, db, seqs, now, sc>>

\* except Exception: conn.rollback(); raise -- finally: conn.close()
DriverExcept ==
    /\ drv.pc = "except"
    /\ tx' = Rollback(db, tx)
    /\ drv' = [drv EXCEPT !.pc = "failed"]
    /\ UNCHANGED <<ext, tv, db, seqs, pass, issued, now, sc>>

\* the for loop ends: conn.commit(); print("Done.") -- finally: conn.close()
DriverFinish ==
    /\ drv.pc = "loop"
    /\ pass.pc = "none"
    /\ drv.idx = Len(TARGET_SUBREDDITS)
    /\ db' = Commit(db, tx)
    /\ drv' = [drv EXCEPT !.pc = "done"]
    /\ UNCHANGED <<ext, tv, tx, seqs, pass, issued, now, sc>>

-----------------------------------------------------------------------------
(* scrape_posts.py: a whole run of the scraper without an error, as the     *)
(* other processes see it (every pass commits at its end)                   *)

\* some enumeration of the set S (a Python set is iterated in an order that
\* depends on the process's hash seed): one enumeration or its reverse
RECURSIVE SetToSeq(_)
SetToSeq(S) ==
    IF S = {} THEN <<>>
    ELSE LET x == CHOOSE y \in S : TRUE IN <<x>> \o SetToSeq(S \ {x})

SetOrder(S, rev) == IF rev THEN Reverse(SetToSeq(S)) ELSE SetToSeq(S)

\* scrape_comments_for_post, from the k-th comment on
RECURSIVE scrape_comments_for_post(_, _, _, _, _, _)
scrape_comments_for_post(st, sq, comments, post_id, k, rev) ==
    IF k > Len(comments) THEN [st |-> st, sq |-> sq]
    ELSE LET c == comments[k]
             a == upsert_ref(st, sq, "authors", author_name(c.author))
             u == upsert_comment(a.st, a.sq, c, post_id, a.id, <<>>)
             l == link_comment_tickers(u.st, u.sq, u.id,
                                       SetOrder(extract_tickers(c.body), rev))
         IN  scrape_comments_for_post(l.st, l.sq, comments, post_id, k + 1, rev)

\* the loop over the posts of scrape_subreddit, from the k-th post on
RECURSIVE scrape_posts(_, _, _, _, _, _)
scrape_posts(st, sq, listing, subreddit_id, k, rev) ==
    IF k > Len(listing) THEN [st |-> st, sq |-> sq]
    ELSE LET p == listing[k]
             a == upsert_ref(st, sq, "authors", author_name(p.author))
             u == upsert_post(a.st, a.sq, p, subreddit_id, a.id)
             l == link_post_tickers(u.st, u.sq, u.id,
                                    SetOrder(extract_tickers(post_text(p)), rev))
             c == scrape_comments_for_post(l.st, l.sq, p.comments, u.id, 1, rev)
         IN  scrape_posts(c.st, c.sq, listing, subreddit_id, k + 1, rev)

scrape_subreddit(st, sq, name, limit, w, rev) ==
    LET r == upsert_ref(st, sq, "subreddits", name)
    IN  scrape_posts(r.st, r.sq, hot(name, limit, w), r.id, 1, rev)

\* for s in TARGET_SUBREDDITS: scrape_subreddit(s), from the k-th subreddit on
RECURSIVE scrape_main(_, _, _, _, _)
scrape_main(st, sq, k, w, rev) ==
    IF k > Len(TARGET_SUBREDDITS) THEN [st |-> st, sq |-> sq]
    ELSE LET r == scrape_subreddit(st, sq, TARGET_SUBREDDITS[k], HOT_LIMIT, w, rev)
         IN  scrape_main(r.st, r.sq, k + 1, w, rev)

-----------------------------------------------------------------------------
(* Numbers: a score of the analyzers and a stored sentiment is a rational  *)
(* <<n, d>> in lowest terms with d > 0                                      *)

Abs(x) == IF x < 0 THEN -x ELSE x

RECURSIVE GCD(_, _)
GCD(a, b) == IF b = 0 THEN a ELSE GCD(b, a % b)

Frac(n, d) ==
    LET g == GCD(Abs(n), Abs(d))
    IN  IF d < 0 THEN <<(-n) \div g, (-d) \div g>> ELSE <<n \div g, d \div g>>

FracAdd(a, b) == Frac(a[1] * b[2] + b[1] * a[2], a[2] * b[2])
FracMul(a, b) == Frac(a[1] * b[1], a[2] * b[2])
FracDiv(a, b) == Frac(a[1] * b[2], a[2] * b[1])
Int2Frac(k)   == <<k, 1>>

-----------------------------------------------------------------------------
(* sentiment_organizer.py: scoring *)

StartsWith(text, prefix) ==
    Len(text) >= Len(prefix) /\ SubSeq(text, 1, Len(prefix)) = prefix

\* SentimentIntensityAnalyzer.polarity_scores(t or ""): the lexicon scorer, a
\* function of the text alone
polarity_scores(text) ==
    IF StartsWith(text, TitleP1)
    THEN [pos |-> <<1, 2>>, neg |-> <<0, 1>>, neu |-> <<1, 2>>, compound |-> <<1, 1>>]
    ELSE IF text = BodyC1
    THEN [pos |-> <<0, 1>>, neg |-> <<1, 2>>, neu |-> <<1, 2>>, compound |-> <<-1, 2>>]
    ELSE IF StartsWith(text, TitleP2)
    THEN [pos |-> <<1, 4>>, neg |-> <<0, 1>>, neu |-> <<3, 4>>, compound |-> <<1, 4>>]
    ELSE [pos |-> <<0, 1>>, neg |-> <<0, 1>>, neu |-> <<1, 1>>, compound |-> <<0, 1>>]

\* the FinBERT pipeline: a label and a confidence, a function of the text alone
finbert_pipeline(text) ==
    IF StartsWith(text, TitleP1)
    THEN [label |-> "negative", score |-> <<1, 2>>]
    ELSE IF text = BodyC1
    THEN [label |-> "positive", score |-> <<1, 1>>]
    ELSE [label |-> "neutral", score |-> <<3, 4>>]

\* score_finbert: (label, conf, signed) with
\* signed = {"positive": 1.0, "neutral": 0.0, "negative": -1.0}.get(label, 0.0) * conf
score_finbert(text) ==
    LET p == finbert_pipeline(text)
        sign == IF p.label = "positive" THEN 1 ELSE IF p.label = "negative" THEN -1 ELSE 0
    IN  [label |-> p.label, conf |-> p.score, signed |-> FracMul(Int2Frac(sign), p.score)]

\* the rows of `rows` whose column col is v, in order
RECURSIVE Matching(_, _, _)
Matching(rows, col, v) ==
    IF rows = <<>> THEN <<>>
    ELSE (IF Head(rows)[col] = v THEN <<Head(rows)>> ELSE <<>>)
         \o Matching(Tail(rows), col, v)

\* a selection whose incremental mode does not test s.post_id IS NULL
RECURSIVE POSTS_SQL_NoNullTest(_, _, _, _)
POSTS_SQL_NoNullTest(posts, post_sentiment, rescore, since) ==
    IF posts = <<>> THEN <<>>
    ELSE LET p  == Head(posts)
             ok == (rescore /\ p.created_utc >= since) \/ ~rescore
             out == [id |-> p.id, score |-> p.score, created_utc |-> p.created_utc,
                     text |-> p.title \o <<" ">> \o p.selftext]
         IN  (IF ok THEN <<out>> ELSE <<>>)
             \o POSTS_SQL_NoNullTest(Tail(posts), post_sentiment, rescore, since)

\* POSTS_SQL: posts p LEFT JOIN post_sentiment s ON s.post_id = p.id
\* WHERE (rescore AND p.created_utc >= since) OR (NOT rescore AND s.post_id IS NULL)
RECURSIVE POSTS_SQL(_, _, _, _)
POSTS_SQL(posts, post_sentiment, rescore, since) ==
    IF posts = <<>> THEN <<>>
    ELSE LET p  == Head(posts)
             m  == Matching(post_sentiment, "post_id", p.id)
             \* one joined row per match, or one with s.* NULL
             n  == IF m = <<>> THEN 1 ELSE Len(m)
             ok == (rescore /\ p.created_utc >= since) \/ (~rescore /\ m = <<>>)
             out == [id |-> p.id, score |-> p.score, created_utc |-> p.created_utc,
                     text |-> p.title \o <<" ">> \o p.selftext]
         IN  (IF ok THEN [i \in 1..n |-> out] ELSE <<>>)
             \o POSTS_SQL(Tail(posts), post_sentiment, rescore, since)

\* a selection whose window excludes its first instant
RECURSIVE COMMENTS_SQL_Strict(_, _, _, _)
COMMENTS_SQL_Strict(comments, comment_sentiment, rescore, since) ==
    IF comments = <<>> THEN <<>>
    ELSE LET c  == Head(comments)
             m  == Matching(comment_sentiment, "comment_id", c.id)
             n  == IF m = <<>> THEN 1 ELSE Len(m)
             ok == (rescore /\ c.created_utc > since) \/ (~rescore /\ m = <<>>)
             out == [id |-> c.id, score |-> c.score, created_utc |-> c.created_utc,
                     text |-> c.body]
         IN  (IF ok THEN [i \in 1..n |-> out] ELSE <<>>)
             \o COMMENTS_SQL_Strict(Tail(comments), comment_sentiment, rescore, since)

\* COMMENTS_SQL: comments c LEFT JOIN comment_sentiment s ON s.comment_id = c.id
\* WHERE (rescore AND c.created_utc >= since) OR (NOT rescore AND s.comment_id IS NULL)
RECURSIVE COMMENTS_SQL(_, _, _, _)
COMMENTS_SQL(comments, comment_sentiment, rescore, since) ==
    IF comments = <<>> THEN <<>>
    ELSE LET c  == Head(comments)
             m  == Matching(comment_sentiment, "comment_id", c.id)
             n  == IF m = <<>> THEN 1 ELSE Len(m)
             ok == (rescore /\ c.created_utc >= since) \/ (~rescore /\ m = <<>>)
             out == [id |-> c.id, score |-> c.score, created_utc |-> c.created_utc,
                     text |-> c.body]
         IN  (IF ok THEN [i \in 1..n |-> out] ELSE <<>>)
             \o COMMENTS_SQL(Tail(comments), comment_sentiment, rescore, since)

\* params = {"rescore": rescore, "since": now - timedelta(days=since_days)}
fetch_for_scoring(st, table, rescore, since_days, clock) ==
    LET since == clock - since_days * DayLen
    IN  IF table = "posts"
        THEN POSTS_SQL(st.posts, st.post_sentiment, rescore, since)
        ELSE COMMENTS_SQL(st.comments, st.comment_sentiment, rescore, since)

\* the tuples score_table builds from the data frame
score_tuples(df, use_finbert) ==
    [i \in DOMAIN df |->
        LET v == polarity_scores(df[i].text)
            f == score_finbert(df[i].text)
        IN  [id |-> df[i].id,
             vader_pos |-> v.pos, vader_neg |-> v.neg, vader_neu |-> v.neu,
             vader_compound |-> v.compound,
             finbert_label  |-> IF use_finbert THEN <<f.label>> ELSE <<>>,
             finbert_conf   |-> IF use_finbert THEN <<f.conf>> ELSE <<>>,
             finbert_signed |-> IF use_finbert THEN <<f.signed>> ELSE <<>>]]

\* INSERT INTO post_sentiment (..) VALUES .. ON CONFLICT (post_id) DO UPDATE SET
\* every score column = EXCLUDED's, scored_at = now()
RECURSIVE upsert_post_sentiment(_, _, _)
upsert_post_sentiment(rows, tuples, clock) ==
    IF tuples = <<>> THEN rows
    ELSE LET t   == Head(tuples)
             new == [post_id |-> t.id,
                     vader_pos |-> t.vader_pos, vader_neg |-> t.vader_neg,
                     vader_neu |-> t.vader_neu, vader_compound |-> t.vader_compound,
                     finbert_label |-> t.finbert_label, finbert_conf |-> t.finbert_conf,
                     finbert_signed |-> t.finbert_signed, scored_at |-> clock]
             hit == {i \in DOMAIN rows : rows[i].post_id = t.id}
             rows2 == IF hit = {} THEN Append(rows, new)
                      ELSE [i \in DOMAIN rows |-> IF i \in hit THEN new ELSE rows[i]]
         IN  upsert_post_sentiment(rows2, Tail(tuples), clock)

\* INSERT INTO comment_sentiment (..) VALUES .. ON CONFLICT (comment_id) DO UPDATE ..
RECURSIVE upsert_comment_sentiment(_, _, _)
upsert_comment_sentiment(rows, tuples, clock) ==
    IF tuples = <<>> THEN rows
    ELSE LET t   == Head(tuples)
             new == [comment_id |-> t.id,
                     vader_pos |-> t.vader_pos, vader_neg |-> t.vader_neg,
                     vader_neu |-> t.vader_neu, vader_compound |-> t.vader_compound,
                     finbert_label |-> t.finbert_label, finbert_conf |-> t.finbert_conf,
                     finbert_signed |-> t.finbert_signed, scored_at |-> clock]
             hit == {i \in DOMAIN rows : rows[i].comment_id = t.id}
             rows2 == IF hit = {} THEN Append(rows, new)
                      ELSE [i \in DOMAIN rows |-> IF i \in hit THEN new ELSE rows[i]]
         IN  upsert_comment_sentiment(rows2, Tail(tuples), clock)

\* the clock when the model starts: every post and comment of the source exists
\* no call of extract_tickers under examination; ticker_verification.py not run
NoExtract == [pc |-> "none", arg |-> <<>>, ret |-> {}, again |-> {}]
NoBuild   == [pc |-> "none"]

Now0 == 2 * DayLen

NoScore == [pc |-> "idle", last |-> "", table |-> "", use_finbert |-> FALSE,
            rescore |-> FALSE, df |-> <<>>, ret |-> 0]

Init ==
    /\ db = EmptyStore
    /\ tx = EmptyStore
    /\ seqs = EmptySeqs
    /\ drv = [pc |-> "idle", idx |-> 0, runs |-> 0, w |-> 0]
    /\ pass = NoPass
    /\ issued = NoIssued
    /\ now = Now0
    /\ sc = NoScore
    /\ ext = NoExtract
    /\ tv = NoBuild

Next ==
    \/ \E w \in Worlds : DriverStart(w)
    \/ PassBegin
    \/ ResolveSubreddit
    \/ ResolveAuthor
    \/ UpsertPost
    \/ LinkPostTickers
    \/ CommentAuthor
    \/ UpsertComment
    \/ LinkCommentTickers
    \/ CommentsDone
    \/ PassCommit
    \/ PassRaise
    \/ DriverExcept
    \/ DriverFinish

Spec == Init /\ [][Next]_vars

-----------------------------------------------------------------------------
(* sentiment_organizer.py: daily aggregation *)

\* (created_utc AT TIME ZONE 'UTC')::date
utc_date(t) == t \div DayLen

\* a weight that is not clamped
GREATEST_NoClamp(a, b) == a

GREATEST(a, b) == IF a >= b THEN a ELSE b

\* COALESCE(a, b) for a nullable a
COALESCE(a, b) == IF a # <<>> THEN a[1] ELSE b

\* post_s: posts JOIN post_tickers JOIN tickers JOIN post_sentiment, one row
\* per combination of rows that satisfies the ON conditions
post_s(st) ==
    {[src |-> <<"post", j[1], j[2], j[3], j[4]>>,
      ticker |-> st.tickers[j[3]].val,
      d |-> utc_date(st.posts[j[1]].created_utc),
      s |-> COALESCE(st.post_sentiment[j[4]].finbert_signed,
                     st.post_sentiment[j[4]].vader_compound),
      w |-> GREATEST(st.posts[j[1]].score, 0)] :
     j \in {x \in (DOMAIN st.posts) \X (DOMAIN st.post_tickers)
                  \X (DOMAIN st.tickers) \X (DOMAIN st.post_sentiment) :
               /\ st.post_tickers[x[2]].post_id = st.posts[x[1]].id
               /\ st.tickers[x[3]].id = st.post_tickers[x[2]].ticker_id
               /\ st.post_sentiment[x[4]].post_id = st.posts[x[1]].id}}

\* comment_s: comments JOIN comment_tickers JOIN tickers JOIN comment_sentiment
comment_s(st) ==
    {[src |-> <<"comment", j[1], j[2], j[3], j[4]>>,
      ticker |-> st.tickers[j[3]].val,
      d |-> utc_date(st.comments[j[1]].created_utc),
      s |-> COALESCE(st.comment_sentiment[j[4]].finbert_signed,
                     st.comment_sentiment[j[4]].vader_compound),
      w |-> GREATEST(st.comments[j[1]].score, 0)] :
     j \in {x \in (DOMAIN st.comments) \X (DOMAIN st.comment_tickers)
                  \X (DOMAIN st.tickers) \X (DOMAIN st.comment_sentiment) :
               /\ st.comment_tickers[x[2]].comment_id = st.comments[x[1]].id
               /\ st.tickers[x[3]].id = st.comment_tickers[x[2]].ticker_id
               /\ st.comment_sentiment[x[4]].comment_id = st.comments[x[1]].id}}

\* union_s: UNION ALL of the two (the rows keep their identity in src)
union_s(st) == post_s(st) \cup comment_s(st)

\* SUM(w) over a set of joined rows
RECURSIVE SUM_w(_)
SUM_w(R) ==
    IF R = {} THEN 0
    ELSE LET r == CHOOSE x \in R : TRUE IN r.w + SUM_w(R \ {r})

\* SUM(s * w) over a set of joined rows
RECURSIVE SUM_sw(_)
SUM_sw(R) ==
    IF R = {} THEN Int2Frac(0)
    ELSE LET r == CHOOSE x \in R : TRUE
         IN  FracAdd(FracMul(r.s, Int2Frac(r.w)), SUM_sw(R \ {r}))

\* a quotient that is 0, not NULL, when the divisor is 0
DivNullIfZero_Zero(num, a) ==
    IF a = 0 THEN <<Int2Frac(0)>> ELSE <<FracDiv(num, Int2Frac(a))>>

\* NULLIF(a, 0) as the divisor: a NULL divisor makes the quotient NULL
DivNullIfZero(num, a) == IF a = 0 THEN <<>> ELSE <<FracDiv(num, Int2Frac(a))>>

\* one row of rolled: the aggregates of the group G of (ticker, date)
rolled_row(ticker, date, G) ==
    [ticker |-> ticker, date |-> date,
     sentiment |-> DivNullIfZero(SUM_sw(G), SUM_w(G)),
     count |-> Cardinality(G),
     weight_sum |-> SUM_w(G)]

\* the rows of U grouped by (ticker, date)
group_by(U) ==
    {rolled_row(k[1], k[2], {r \in U : r.ticker = k[1] /\ r.d = k[2]}) :
       k \in {<<r.ticker, r.d>> : r \in U}}

\* rolled: SELECT .. FROM union_s GROUP BY ticker, date
rolled(st) == group_by(union_s(st))

\* an incremental merge: on conflict the counts and weights are added to the
\* stored ones and the stored sentiment is kept
RECURSIVE upsert_daily_Merge(_, _)
upsert_daily_Merge(rows, new) ==
    IF new = <<>> THEN rows
    ELSE LET n   == Head(new)
             hit == {i \in DOMAIN rows :
                        rows[i].ticker = n.ticker /\ rows[i].date = n.date}
             rows2 == IF hit = {} THEN Append(rows, n)
                      ELSE [i \in DOMAIN rows |->
                              IF i \in hit
                              THEN [rows[i] EXCEPT !.count = @ + n.count,
                                                   !.weight_sum = @ + n.weight_sum]
                              ELSE rows[i]]
         IN  upsert_daily_Merge(rows2, Tail(new))

\* INSERT INTO daily_sentiment .. ON CONFLICT (ticker, date) DO UPDATE SET
\* sentiment, count, weight_sum = EXCLUDED's
RECURSIVE upsert_daily(_, _)
upsert_daily(rows, new) ==
    IF new = <<>> THEN rows
    ELSE LET n   == Head(new)
             hit == {i \in DOMAIN rows :
                        rows[i].ticker = n.ticker /\ rows[i].date = n.date}
             rows2 == IF hit = {} THEN Append(rows, n)
                      ELSE [i \in DOMAIN rows |-> IF i \in hit THEN n ELSE rows[i]]
         IN  upsert_daily(rows2, Tail(new))

AGG_SQL(st) ==
    [st EXCEPT !.daily_sentiment = upsert_daily(@, SetToSeq(rolled(st)))]

-----------------------------------------------------------------------------
(* The processes as the scorer's specification sees them *)

\* no scraper process is running (one process at a time)
ScraperIdle == drv.pc \in {"idle", "done", "failed"}

\* python scrape_posts.py runs from start to end without an error, in world w
ScrapeRun(w) ==
    /\ ScraperIdle
    /\ drv.runs < MaxRuns
    /\ sc.pc = "idle"
    /\ \E r \in {scrape_main(tx, seqs, 1, w, FALSE)} :
           /\ tx' = r.st
           /\ db' = Commit(db, r.st)
           /\ seqs' = r.sq
    /\ drv' = [pc |-> "done", idx |-> Len(TARGET_SUBREDDITS), runs |-> drv.runs + 1,
               w |-> w]
    /\ sc' = NoScore
    /\ UNCHANGED <<ext, tv, pass, issued, now>>

\* the instants at which the processes are observed: the start, and one
\* rescore window later
Instants == {Now0, Now0 + SINCE_DAYS * DayLen}

\* time passes
Tick ==
    /\ sc.pc = "idle"
    /\ now' \in Instants
    /\ now' > now
    /\ UNCHANGED <<ext, tv, db, tx, seqs, drv, pass, issued, sc>>

\* score_table up to the upsert: df = fetch_for_scoring(..); if df.empty:
\* return 0; else the scores are computed and upserted inside `with conn`
\* (one page of execute_values: page_size is 500 and 1000 rows)
ScoreTable(table, use_finbert, rescore) ==
    /\ ScraperIdle
    /\ sc.pc = "idle"
    /\ \E df \in {fetch_for_scoring(tx, table, rescore, SINCE_DAYS, now)} :
           LET tuples == score_tuples(df, use_finbert)
           IN
           IF df = <<>>
           THEN /\ sc' = [NoScore EXCEPT !.last = "score_table", !.ret = 0,
                                         !.table = table, !.rescore = rescore]
                /\ tx' = tx
           ELSE /\ sc' = [pc |-> "upserted", last |-> sc.last, table |-> table,
                          use_finbert |-> use_finbert, rescore |-> rescore,
                          df |-> df, ret |-> sc.ret]
                /\ tx' = IF table = "posts"
                         THEN [tx EXCEPT !.post_sentiment =
                                            upsert_post_sentiment(@, tuples, now)]
                         ELSE [tx EXCEPT !.comment_sentiment =
                                            upsert_comment_sentiment(@, tuples, now)]
    /\ UNCHANGED <<ext, tv, db, seqs, drv, pass, issued, now>>

\* score_table: `with conn` exits normally and commits; return len(tuples)
ScoreCommit ==
    /\ sc.pc = "upserted"
    /\ db' = Commit(db, tx)
    /\ sc' = [NoScore EXCEPT !.last = "score_table", !.ret = Len(sc.df)]
    /\ UNCHANGED <<ext, tv, tx, seqs, drv, pass, issued, now>>

\* score_table raises (an analyzer or a statement fails): `with conn` rolls back
ScoreRaise ==
    /\ sc.pc = "upserted"
    /\ tx' = Rollback(db, tx)
    /\ sc' = NoScore
    /\ UNCHANGED <<ext, tv, db, seqs, drv, pass, issued, now>>

\* aggregate_daily: with conn, conn.cursor() as cur: cur.execute(AGG_SQL)
AggregateDaily ==
    /\ ScraperIdle
    /\ sc.pc = "idle"
    /\ tx' = AGG_SQL(tx)
    /\ db' = Commit(db, tx')
    /\ sc' = [NoScore EXCEPT !.last = "aggregate_daily"]
    /\ UNCHANGED <<ext, tv, seqs, drv, pass, issued, now>>

NextScore ==
    \/ \E w \in Worlds : ScrapeRun(w)
    \/ Tick
    \/ \E table \in {"posts", "comments"} : \E use_finbert, rescore \in BOOLEAN :
          ScoreTable(table, use_finbert, rescore)
    \/ ScoreCommit
    \/ ScoreRaise
    \/ AggregateDaily

SpecScore == Init /\ [][NextScore]_vars

-----------------------------------------------------------------------------
(* Properties of the scraper (specification Spec) *)

IsPrefix(s, t) == Len(s) <= Len(t) /\ \A i \in DOMAIN s : s[i] = t[i]

\* the rows of a table whose column col holds v
RowsWith(rows, col, v) == {i \in DOMAIN rows : rows[i][col] = v}

\* C1: a subreddit pass is all-or-nothing.  While a pass runs the committed
\* store does not change; a pass that raises leaves the committed store as it
\* was, drops the connection's uncommitted writes and hands the error to the
\* caller; a pass that ends without error commits all its writes at once.
C1_PassAllOrNothing ==
    [][pass.pc # "none" =>
         /\ pass'.pc # "none" => db' = db
         /\ pass'.pc = "none" =>
              \/ db' = tx /\ tx' = tx /\ drv'.pc = "loop"
              \/ db' = db /\ tx' = db /\ drv'.pc = "except"]_vars

\* C1 witness: a pass has raised after writing, an earlier pass is committed,
\* and nothing of the failed pass is in the store
C1_Witness ==
    /\ drv.pc = "except"
    /\ issued.rb # {}
    /\ Len(db.subreddits) = 1
    /\ tx = db

\* C2: when the driver has ended, every listed subreddit's pass has been
\* started, whatever the outcome of the earlier passes
C2_EveryPassAttempted ==
    drv.pc \in {"done", "failed"} => drv.idx = Len(TARGET_SUBREDDITS)

\* the calls of upsert_ref that were not rolled back
LiveCalls == issued.ok \cup issued.tx

AllCalls == issued.ok \cup issued.tx \cup issued.rb

\* C3 as stated: all calls of upsert_ref with one (table, value), in whichever
\* pass, have returned one id, and calls with distinct values distinct ids
C3_SameIdInEveryPass ==
    \A a, b \in AllCalls :
        a[1] = b[1] => (a[2] = b[2] <=> a[3] = b[3])

\* C3 amended: among the calls whose pass was not rolled back, the calls with
\* one (table, value) have returned one id, which is the id of the only row of
\* the table with that value; and calls with distinct values, rolled back or
\* not, have returned distinct ids
C3_UpsertRefIdempotent ==
    /\ \A a \in LiveCalls :
          /\ Cardinality(RowsWith(tx[a[1]], "val", a[2])) = 1
          /\ \A i \in RowsWith(tx[a[1]], "val", a[2]) : tx[a[1]][i].id = a[3]
    /\ \A a, b \in AllCalls :
          (a[1] = b[1] /\ a[2] # b[2]) => a[3] # b[3]

\* C3 witness: in a second run the upsert of an already committed subreddit
\* has returned the committed id, and an id of a rolled-back call is on record
C3_Witness ==
    /\ pass.pc = "subreddit-resolved"
    /\ <<"subreddits", pass.name, pass.subreddit_id>> \in issued.ok
    /\ issued.rb # {}

\* the columns of a post that a re-upsert must leave alone
PostFrame(r) ==
    <<r.id, r.reddit_id, r.subreddit_id, r.author_id, r.title, r.selftext, r.url,
      r.permalink, r.created_utc>>

CommentFrame(r) ==
    <<r.id, r.reddit_id, r.post_id, r.author_id, r.body, r.created_utc>>

\* C4: the upsert of a post whose reddit_id is already stored creates no row,
\* returns the stored id, sets score and num_comments to the values of this
\* call and leaves the other columns of that row and all other rows as they
\* were; the upsert of a stored comment does the same with score alone
C4_UpsertRefreshesOnlyEngagement ==
    [][/\ (pass.pc = "author-resolved" /\ pass'.pc = "post-upserted") =>
            \A i \in RowsWith(tx.posts, "reddit_id", Listing[pass.pi].id) :
                /\ Len(tx'.posts) = Len(tx.posts)
                /\ pass'.post_id = tx.posts[i].id
                /\ PostFrame(tx'.posts[i]) = PostFrame(tx.posts[i])
                /\ tx'.posts[i].score = Listing[pass.pi].score
                /\ tx'.posts[i].num_comments = Listing[pass.pi].num_comments
                /\ \A j \in DOMAIN tx.posts : j # i => tx'.posts[j] = tx.posts[j]
       /\ (pass.pc = "comment-author" /\ pass'.pc = "comment-upserted") =>
            \A i \in RowsWith(tx.comments, "reddit_id", Comments[pass.ci].id) :
                /\ Len(tx'.comments) = Len(tx.comments)
                /\ pass'.comment_id = tx.comments[i].id
                /\ CommentFrame(tx'.comments[i]) = CommentFrame(tx.comments[i])
                /\ tx'.comments[i].score = Comments[pass.ci].score
                /\ \A j \in DOMAIN tx.comments : j # i => tx'.comments[j] = tx.comments[j]
      ]_vars

\* C4 witness: a post and its comment have been re-upserted from a source
\* record whose content and score differ from the stored ones
C4_Witness ==
    /\ pass.pc = "comment-upserted"
    /\ pass.ci = 1
    /\ \E i \in DOMAIN tx.posts : \E j \in DOMAIN tx.comments :
          /\ tx.posts[i].reddit_id = "p1"
          /\ tx.posts[i].selftext # Listing[pass.pi].selftext
          /\ tx.posts[i].score = Listing[pass.pi].score
          /\ tx.posts[i].score # db.posts[i].score
          /\ tx.comments[j].reddit_id = "c1"
          /\ tx.comments[j].body # Comments[1].body
          /\ tx.comments[j].score = Comments[1].score
          /\ tx.comments[j].score # db.comments[j].score

NoDuplicates(rows) == \A i, j \in DOMAIN rows : rows[i] = rows[j] => i = j

\* C5: the link tables never hold two rows for one (entity, ticker) pair, a
\* committed link row is never changed or removed, and a pass only adds link
\* rows to the ones it found
C5_LinkRowsUnique ==
    /\ [](/\ NoDuplicates(tx.post_tickers) /\ NoDuplicates(tx.comment_tickers)
          /\ NoDuplicates(db.post_tickers) /\ NoDuplicates(db.comment_tickers))
    /\ [][/\ IsPrefix(db.post_tickers, db'.post_tickers)
          /\ IsPrefix(db.comment_tickers, db'.comment_tickers)
          /\ IsPrefix(db.post_tickers, tx'.post_tickers)
          /\ IsPrefix(db.comment_tickers, tx'.comment_tickers)]_vars

\* C5 witness: a re-scrape has linked a post and a comment to the tickers they
\* were already linked to, and the link tables are as they were
C5_Witness ==
    /\ pass.pc = "comment-linked"
    /\ pass.ci = 1
    /\ Len(db.post_tickers) >= 2
    /\ Len(db.comment_tickers) >= 1
    /\ tx.post_tickers = db.post_tickers
    /\ tx.comment_tickers = db.comment_tickers

-----------------------------------------------------------------------------
(* Properties of scoring and aggregation (specification SpecScore) *)

\* the contributing items of (ticker t, date d): the posts and comments created
\* on day d that have a sentiment row and a link to the ticker of symbol t,
\* each with its signed sentiment s and its weight w
Contributors(st, t, d) ==
    LET OnDay(r)    == d * DayLen <= r.created_utc /\ r.created_utc < (d + 1) * DayLen
        Signed(x)   == IF x.finbert_signed = <<>> THEN x.vader_compound
                       ELSE x.finbert_signed[1]
        Weight(r)   == IF r.score > 0 THEN r.score ELSE 0
        Symbol(tid) == {x.val : x \in {y \in Range(st.tickers) : y.id = tid}}
    IN  {[item |-> <<"post", r.id>>, s |-> Signed(x), w |-> Weight(r)] :
            <<r, x>> \in {z \in Range(st.posts) \X Range(st.post_sentiment) :
                /\ z[2].post_id = z[1].id
                /\ OnDay(z[1])
                /\ \E l \in Range(st.post_tickers) :
                      l.post_id = z[1].id /\ t \in Symbol(l.ticker_id)}}
        \cup
        {[item |-> <<"comment", r.id>>, s |-> Signed(x), w |-> Weight(r)] :
            <<r, x>> \in {z \in Range(st.comments) \X Range(st.comment_sentiment) :
                /\ z[2].comment_id = z[1].id
                /\ OnDay(z[1])
                /\ \E l \in Range(st.comment_tickers) :
                      l.comment_id = z[1].id /\ t \in Symbol(l.ticker_id)}}

\* the (ticker, date) keys a store can have contributors for
Keys(st) == {x.val : x \in Range(st.tickers)} \X (0..(now \div DayLen))

\* sum of the weights, product of the denominators of the sentiments, and sum
\* of s * w as a numerator over the denominator L
RECURSIVE WeightSum(_)
WeightSum(C) ==
    IF C = {} THEN 0 ELSE LET c == CHOOSE x \in C : TRUE IN c.w + WeightSum(C \ {c})

RECURSIVE DenProduct(_)
DenProduct(C) ==
    IF C = {} THEN 1 ELSE LET c == CHOOSE x \in C : TRUE IN c.s[2] * DenProduct(C \ {c})

RECURSIVE NumSum(_, _)
NumSum(C, L) ==
    IF C = {} THEN 0
    ELSE LET c == CHOOSE x \in C : TRUE
         IN  c.s[1] * (L \div c.s[2]) * c.w + NumSum(C \ {c}, L)

\* the rows of daily_sentiment with key (t, d)
DailyRows(st, t, d) ==
    {i \in DOMAIN st.daily_sentiment :
        st.daily_sentiment[i].ticker = t /\ st.daily_sentiment[i].date = d}

\* row r holds the aggregates of the contributors C
HoldsAggregate(r, C) ==
    /\ r.count = Cardinality(C)
    /\ r.weight_sum = WeightSum(C)
    /\ WeightSum(C) > 0 =>
          /\ r.sentiment # <<>>
          /\ r.sentiment[1][2] > 0
          /\ r.sentiment[1][1] * DenProduct(C) * WeightSum(C)
                = r.sentiment[1][2] * NumSum(C, DenProduct(C))

JustAggregated == sc.last = "aggregate_daily"

\* C6: after aggregate_daily, every (ticker, date) with contributing items has
\* a row with sentiment = sum(s * w) / sum(w), count = the number of
\* contributing items and weight_sum = sum(w), where s is the model score if
\* present and else the lexicon compound score and w = max(score, 0); no
\* weight_sum is negative; and items (s = 1, w = 10), (s = -1/2, w = 2) give
\* sentiment 3/4, count 2, weight_sum 12
C6_WeightedMean ==
    /\ \A i \in DOMAIN db.daily_sentiment : db.daily_sentiment[i].weight_sum >= 0
    /\ JustAggregated =>
          \A k \in Keys(db) :
             LET C == Contributors(db, k[1], k[2])
             IN  C # {} =>
                   /\ DailyRows(db, k[1], k[2]) # {}
                   /\ \A i \in DailyRows(db, k[1], k[2]) :
                         /\ HoldsAggregate(db.daily_sentiment[i], C)
                         /\ ({<<c.s, c.w>> : c \in C} = {<<<<1, 1>>, 10>>, <<<<-1, 2>>, 2>>}
                             /\ Cardinality(C) = 2)
                            => /\ db.daily_sentiment[i].sentiment = << <<3, 4>> >>
                               /\ db.daily_sentiment[i].count = 2
                               /\ db.daily_sentiment[i].weight_sum = 12

\* C6 witness: after an aggregation the row of (GME, day of p1) holds 3/4, 2, 12
\* and its contributors are the post (s = 1, w = 10) and the comment
\* (s = -1/2, w = 2)
C6_Witness ==
    /\ JustAggregated
    /\ \E d \in 0..(now \div DayLen) :
          /\ {<<c.item[1], c.s, c.w>> : c \in Contributors(db, GME, d)}
                = {<<"post", <<1, 1>>, 10>>, <<"comment", <<-1, 2>>, 2>>}
          /\ \E i \in DailyRows(db, GME, d) :
                /\ db.daily_sentiment[i].sentiment = << <<3, 4>> >>
                /\ db.daily_sentiment[i].count = 2
                /\ db.daily_sentiment[i].weight_sum = 12

\* C7: after aggregate_daily, a (ticker, date) whose contributing items all
\* have weight 0 has a row with sentiment NULL, weight_sum 0 and count = the
\* number of its items; and any stored row has sentiment NULL exactly when its
\* weight_sum is 0
C7_ZeroWeightIsNull ==
    /\ \A i \in DOMAIN db.daily_sentiment :
          db.daily_sentiment[i].sentiment = <<>> <=> db.daily_sentiment[i].weight_sum = 0
    /\ JustAggregated =>
          \A k \in Keys(db) :
             LET C == Contributors(db, k[1], k[2])
             IN  (C # {} /\ \A c \in C : c.w = 0) =>
                   /\ DailyRows(db, k[1], k[2]) # {}
                   /\ \A i \in DailyRows(db, k[1], k[2]) :
                         /\ db.daily_sentiment[i].sentiment = <<>>
                         /\ db.daily_sentiment[i].weight_sum = 0
                         /\ db.daily_sentiment[i].count = Cardinality(C)

\* C7 witness: after an aggregation a group of two items of score <= 0 has a
\* row with NULL sentiment, weight_sum 0 and count 2
C7_Witness ==
    /\ JustAggregated
    /\ \E k \in Keys(db) :
          /\ Cardinality(Contributors(db, k[1], k[2])) = 2
          /\ \A c \in Contributors(db, k[1], k[2]) : c.w = 0
          /\ \E i \in DailyRows(db, k[1], k[2]) :
                /\ db.daily_sentiment[i].sentiment = <<>>
                /\ db.daily_sentiment[i].count = 2

\* the row of rolled(st) for the key of row r, if any
RolledFor(st, r) == {n \in rolled(st) : n.ticker = r.ticker /\ n.date = r.date}

\* C8: aggregate_daily overwrites.  A run replaces the row of every key that
\* has contributing items by the aggregates of the current data, whatever the
\* row held, and leaves the other rows alone; a second run on unchanged data
\* changes nothing; and no key ever has two rows
C8_RecomputeAndOverwrite ==
    /\ [](\A i, j \in DOMAIN db.daily_sentiment :
             (db.daily_sentiment[i].ticker = db.daily_sentiment[j].ticker
              /\ db.daily_sentiment[i].date = db.daily_sentiment[j].date) => i = j)
    /\ [](JustAggregated => AGG_SQL(db) = db)
    /\ [][(sc'.last = "aggregate_daily" /\ sc.last # "aggregate_daily") =>
            /\ \A k \in Keys(db) :
                  Contributors(db, k[1], k[2]) # {} =>
                     /\ Cardinality(DailyRows(db', k[1], k[2])) = 1
                     /\ \A i \in DailyRows(db', k[1], k[2]) :
                           /\ HoldsAggregate(db'.daily_sentiment[i],
                                             Contributors(db, k[1], k[2]))
                           /\ db'.daily_sentiment[i] =
                                 AGG_SQL([db EXCEPT !.daily_sentiment = <<>>])
                                    .daily_sentiment[
                                       CHOOSE j \in DailyRows(
                                          AGG_SQL([db EXCEPT !.daily_sentiment = <<>>]),
                                          k[1], k[2]) : TRUE]
            /\ \A i \in DOMAIN db.daily_sentiment :
                  Contributors(db, db.daily_sentiment[i].ticker,
                               db.daily_sentiment[i].date) = {}
                     => db'.daily_sentiment[i] = db.daily_sentiment[i]
            /\ [db' EXCEPT !.daily_sentiment = <<>>]
                  = [db EXCEPT !.daily_sentiment = <<>>]
          ]_vars

\* C8 witness: an aggregation has run, the data have changed since, and the
\* stored row of a key differs from the aggregates of the current data: the
\* next aggregation overwrites it
C8_Witness ==
    /\ sc.pc = "idle"
    /\ sc.last = "score_table"
    /\ \E i \in DOMAIN db.daily_sentiment :
          /\ RolledFor(db, db.daily_sentiment[i]) # {}
          /\ db.daily_sentiment[i] \notin RolledFor(db, db.daily_sentiment[i])
          /\ db.daily_sentiment[i].count > 1

\* the rows of `table` and the ids its sentiment table holds, in store st
TableRows(st, table) == IF table = "posts" THEN st.posts ELSE st.comments

SentimentIds(st, table) ==
    IF table = "posts"
    THEN [i \in DOMAIN st.post_sentiment |-> st.post_sentiment[i].post_id]
    ELSE [i \in DOMAIN st.comment_sentiment |-> st.comment_sentiment[i].comment_id]

\* the ids a run is to select: in rescore mode the rows created at or after
\* clock - N days, else the rows without a sentiment row
Selected(st, table, rescore, N, clock) ==
    {r.id : r \in {x \in Range(TableRows(st, table)) :
                      IF rescore THEN x.created_utc >= clock - N * DayLen
                      ELSE x.id \notin Range(SentimentIds(st, table))}}

\* the window lengths the selection is checked for
WindowDays == {0, 1, SINCE_DAYS}

\* C9: fetch_for_scoring selects, each once, exactly the rows without a
\* sentiment row when rescore is false and exactly the rows created in the last
\* N days when rescore is true, with or without a sentiment row; a run works on
\* that selection, and a run that returned 0 had nothing to select
C9_SelectionRule ==
    /\ \A table \in {"posts", "comments"} : \A rescore \in BOOLEAN :
          \A N \in WindowDays :
             LET df == fetch_for_scoring(db, table, rescore, N, now)
             IN  /\ {df[i].id : i \in DOMAIN df} = Selected(db, table, rescore, N, now)
                 /\ \A i, j \in DOMAIN df : df[i].id = df[j].id => i = j
    /\ sc.pc = "upserted" =>
          sc.df = fetch_for_scoring(db, sc.table, sc.rescore, SINCE_DAYS, now)
    /\ (sc.pc = "idle" /\ sc.last = "score_table" /\ sc.ret = 0) =>
          Selected(db, sc.table, sc.rescore, SINCE_DAYS, now) = {}

\* C9 witness: a rescore run on comments is under way; it selected a comment
\* of the window that has a sentiment row and left out an unscored comment
\* older than the window
C9_Witness ==
    /\ sc.pc = "upserted"
    /\ sc.rescore
    /\ sc.table = "comments"
    /\ \E i \in DOMAIN sc.df : sc.df[i].id \in Range(SentimentIds(db, "comments"))
    /\ \E c \in Range(db.comments) :
          /\ c.id \notin Range(SentimentIds(db, "comments"))
          /\ c.created_utc < now - SINCE_DAYS * DayLen
          /\ \A i \in DOMAIN sc.df : sc.df[i].id # c.id

\* C10: a score_table run with rescore false that commits returns the number
\* of selected rows and leaves each of them with exactly one sentiment row and
\* nothing to select; a run starts its upsert only with rows to score, and
\* one with nothing to select returns 0 and writes nothing; a run that fails
\* leaves the store as it was, with the same rows to select
C10_IncrementalRunIdempotent ==
    [][/\ (sc.pc = "upserted" /\ sc'.pc = "idle" /\ sc'.last = "score_table") =>
             /\ sc'.ret = Len(sc.df)
             /\ ~sc.rescore =>
                   /\ \A i \in DOMAIN sc.df :
                         Cardinality({k \in DOMAIN SentimentIds(db', sc.table) :
                            SentimentIds(db', sc.table)[k] = sc.df[i].id}) = 1
                   /\ fetch_for_scoring(db', sc.table, FALSE, SINCE_DAYS, now') = <<>>
       /\ (sc.pc = "idle" /\ sc'.pc = "upserted") => sc'.df # <<>>
       /\ (sc.pc = "idle" /\ sc'.pc = "idle" /\ sc'.last = "score_table" /\ sc' # sc) =>
             /\ sc'.ret = 0
             /\ db' = db
             /\ tx' = tx
       /\ (sc.pc = "upserted" /\ sc' = NoScore) =>
             /\ db' = db
             /\ tx' = db
             /\ fetch_for_scoring(db', sc.table, sc.rescore, SINCE_DAYS, now') = sc.df
      ]_vars

\* C10 witness: every post was scored by an earlier run, and a later run on
\* posts with rescore false has returned 0
C10_Witness ==
    /\ sc.pc = "idle"
    /\ sc.last = "score_table"
    /\ sc.ret = 0
    /\ sc.table = "posts"
    /\ ~sc.rescore
    /\ db.posts # <<>>
    /\ \A p \in Range(db.posts) :
          Cardinality({k \in DOMAIN db.post_sentiment :
                          db.post_sentiment[k].post_id = p.id}) = 1
    /\ \A x \in Range(db.post_sentiment) : x.scored_at < now

-----------------------------------------------------------------------------
(* End to end: one post with two comments, ingested into an empty store, then
   scored and aggregated (specification SpecE2E) *)

NextE2E ==
    \/ \E w \in SinglePost : ScrapeRun(w)
    \/ Tick
    \/ \E table \in {"posts", "comments"} : \E use_finbert, rescore \in BOOLEAN :
          ScoreTable(table, use_finbert, rescore)
    \/ ScoreCommit
    \/ ScoreRaise
    \/ AggregateDaily

SpecE2E == Init /\ [][NextE2E]_vars

\* the ids of the tickers rows of symbol sym
TickerIds(st, sym) == {i \in DOMAIN st.tickers : st.tickers[i].val = sym}

\* every post and comment has a sentiment row
AllScored(st) ==
    /\ \A p \in Range(st.posts) : p.id \in Range(SentimentIds(st, "posts"))
    /\ \A c \in Range(st.comments) : c.id \in Range(SentimentIds(st, "comments"))

\* C11: once the post "GME to the moon AMC" with its comments "GME" and
\* "to the moon" is ingested, tickers has one row of symbol GME, post_tickers
\* has one row and comment_tickers has one row of that ticker id, the comment
\* without uppercase tokens has no link row, and once both tables are scored
\* and aggregated daily_sentiment has exactly one row for (GME, the UTC date
\* of the post)
C11_EndToEnd ==
    drv.runs > 0 =>
       /\ Len(db.posts) = 1
       /\ Len(db.comments) = 2
       /\ Cardinality(TickerIds(db, GME)) = 1
       /\ \A i \in TickerIds(db, GME) :
             /\ Cardinality({k \in DOMAIN db.post_tickers :
                   db.post_tickers[k].ticker_id = db.tickers[i].id}) = 1
             /\ Cardinality({k \in DOMAIN db.comment_tickers :
                   db.comment_tickers[k].ticker_id = db.tickers[i].id}) = 1
       /\ \A c \in Range(db.comments) :
             c.body = BodyC2 =>
                \A l \in Range(db.comment_tickers) : l.comment_id # c.id
       /\ (JustAggregated /\ AllScored(db)) =>
             \A p \in Range(db.posts) :
                Cardinality(DailyRows(db, GME, p.created_utc \div DayLen)) = 1

\* C11 witness: the post and both comments are ingested, scored and
\* aggregated, and the row of (GME, the post's date) counts the post and the
\* comment
C11_Witness ==
    /\ drv.runs > 0
    /\ JustAggregated
    /\ AllScored(db)
    /\ Len(db.comments) = 2
    /\ \E p \in Range(db.posts) :
          \E i \in DailyRows(db, GME, p.created_utc \div DayLen) :
             db.daily_sentiment[i].count = 2

-----------------------------------------------------------------------------
(* extract_tickers as a function of any text (specification SpecExtract) *)

\* the characters of the texts: an uppercase letter, a lowercase letter, a
\* digit, the underscore and a character that is not a word character
Alphabet == {"A", "x", "7", "_", " "}

Texts == UNION {[1..n -> Alphabet] : n \in 0..MaxLen}

\* the arguments: None, or a text
InitExtract ==
    /\ db = EmptyStore
    /\ tx = EmptyStore
    /\ seqs = EmptySeqs
    /\ drv = [pc |-> "idle", idx |-> 0, runs |-> 0, w |-> 0]
    /\ pass = NoPass
    /\ issued = NoIssued
    /\ now = Now0
    /\ sc = NoScore
    /\ tv = NoBuild
    /\ \E arg \in {<<>>} \cup {<<t>> : t \in Texts} :
          ext = [pc |-> "call", arg |-> arg, ret |-> {}, again |-> {}]

\* extract_tickers(text): `if not text: return set()` and the findall
Extract ==
    /\ ext.pc = "call"
    /\ ext' = [ext EXCEPT !.pc = "returned",
                          !.ret = IF ext.arg = <<>> THEN {}
                                  ELSE extract_tickers(ext.arg[1])]
    /\ UNCHANGED <<db, tx, seqs, drv, pass, issued, now, sc, tv>>

\* the same call once more
ExtractAgain ==
    /\ ext.pc = "returned"
    /\ ext' = [ext EXCEPT !.pc = "again",
                          !.again = IF ext.arg = <<>> THEN {}
                                    ELSE extract_tickers(ext.arg[1])]
    /\ UNCHANGED <<db, tx, seqs, drv, pass, issued, now, sc, tv>>

\* link_post_tickers(cur, post_id, syms) with the symbols of the text, committed
LinkExtracted ==
    /\ ext.pc = "again"
    /\ \E r \in {link_post_tickers(tx, seqs, 1, SetToSeq(ext.again))} :
          /\ tx' = r.st
          /\ db' = Commit(db, r.st)
          /\ seqs' = r.sq
    /\ ext' = [ext EXCEPT !.pc = "linked"]
    /\ UNCHANGED <<drv, pass, issued, now, sc, tv>>

NextExtract ==
    \/ Extract
    \/ ExtractAgain
    \/ LinkExtracted

SpecExtract == InitExtract /\ [][NextExtract]_vars

\* the tokens of a text: the stretches of 1 to 5 uppercase letters that have
\* no word character right before and none right after
Tokens(text) ==
    {SubSeq(text, i, j) : <<i, j>> \in
        {x \in (1..Len(text)) \X (1..Len(text)) :
            /\ x[1] <= x[2]
            /\ x[2] - x[1] + 1 <= TICKER_MAX
            /\ \A k \in x[1]..x[2] : text[k] \in UPPER
            /\ x[1] = 1 \/ ~IsWordChar(text[x[1] - 1])
            /\ x[2] = Len(text) \/ ~IsWordChar(text[x[2] + 1])}}

IsSymbol(t) == Len(t) \in TICKER_MIN..TICKER_MAX /\ \A k \in DOMAIN t : t[k] \in UPPER

\* C12: extract_tickers returns exactly the distinct word-delimited tokens of
\* 1 to 5 uppercase letters of its text, each of them 1 to 5 uppercase
\* letters; None and the empty text give the empty set; a second call gives
\* the same set; and every symbol stored in tickers is 1 to 5 uppercase letters
C12_ExtractTickers ==
    /\ ext.pc \in {"returned", "again", "linked"} =>
          /\ ext.ret = IF ext.arg = <<>> THEN {} ELSE Tokens(ext.arg[1])
          /\ \A t \in ext.ret : IsSymbol(t)
          /\ (ext.arg = <<>> \/ ext.arg = << <<>> >>) => ext.ret = {}
    /\ ext.pc \in {"again", "linked"} => ext.again = ext.ret
    /\ ext.pc = "linked" =>
          {x.val : x \in Range(db.tickers)} = ext.ret
    /\ \A x \in Range(db.tickers) : IsSymbol(x.val)

\* C12 witness: a text that is one run of six uppercase letters gave no
\* symbol and left tickers empty
C12_Witness ==
    /\ ext.pc = "linked"
    /\ ext.arg # <<>>
    /\ Len(ext.arg[1]) = TICKER_MAX + 1
    /\ \A k \in DOMAIN ext.arg[1] : ext.arg[1][k] \in UPPER
    /\ ext.ret = {}
    /\ db.tickers = <<>>

-----------------------------------------------------------------------------
(* scripts/ticker_verification.py: the registry builder.  A string is a      *)
(* tuple of characters; None is a value of its own.                          *)

None == <<"None">>

ALPHA_UP == <<"A","B","C","D","E","F","G","H","I","J","K","L","M",
              "N","O","P","Q","R","S","T","U","V","W","X","Y","Z">>
ALPHA_LO == <<"a","b","c","d","e","f","g","h","i","j","k","l","m",
              "n","o","p","q","r","s","t","u","v","w","x","y","z">>

\* x or d
Or(x, d) == IF x = None \/ x = <<>> THEN d ELSE x

\* s.upper()
upper(s) ==
    [i \in DOMAIN s |->
        IF \E k \in DOMAIN ALPHA_LO : ALPHA_LO[k] = s[i]
        THEN ALPHA_UP[CHOOSE k \in DOMAIN ALPHA_LO : ALPHA_LO[k] = s[i]]
        ELSE s[i]]

\* s.strip()
RECURSIVE lstrip(_)
lstrip(s) == IF s # <<>> /\ Head(s) = " " THEN lstrip(Tail(s)) ELSE s

strip(s) == Reverse(lstrip(Reverse(lstrip(s))))

\* s.split(sep, 1)[0]
split_first(s, sep) ==
    LET at == {i \in DOMAIN s : s[i] = sep}
    IN  IF at = {} THEN s
        ELSE SubSeq(s, 1, (CHOOSE i \in at : \A j \in at : i <= j) - 1)

SEPARATORS == <<".", "-", "/">>

\* a normalisation that cuts at the last occurrence of a separator
RECURSIVE normalize_loop_Last(_, _)
normalize_loop_Last(s, seps) ==
    IF seps = <<>> THEN s
    ELSE LET at == {i \in DOMAIN s : s[i] = Head(seps)}
         IN  normalize_loop_Last(IF at = {} THEN s ELSE SubSeq(s, 1, Max(at) - 1),
                                 Tail(seps))

\* for sep in (".", "-", "/"): if sep in s: s = s.split(sep, 1)[0]
RECURSIVE normalize_loop(_, _)
normalize_loop(s, seps) ==
    IF seps = <<>> THEN s
    ELSE normalize_loop(IF \E i \in DOMAIN s : s[i] = Head(seps)
                        THEN split_first(s, Head(seps)) ELSE s,
                        Tail(seps))

normalize_symbol(sym) == normalize_loop(upper(strip(Or(sym, <<>>))), SEPARATORS)

\* 1 <= len(sym) <= 5 and sym.isalpha()
accepted(sym) == 1 <= Len(sym) /\ Len(sym) <= SYMBOL_MAX /\ isalpha(sym)

-----------------------------------------------------------------------------
(* normalize_symbol and build's filter on any symbol (specification
   SpecNormalize) *)

\* the characters of the symbols: a letter, the separators and the blank
SymbolAlphabet == {"b", ".", "-", "/", " "}

SymbolTexts == UNION {[1..n -> SymbolAlphabet] : n \in 0..MaxLen}

InitNormalize ==
    /\ db = EmptyStore
    /\ tx = EmptyStore
    /\ seqs = EmptySeqs
    /\ drv = [pc |-> "idle", idx |-> 0, runs |-> 0, w |-> 0]
    /\ pass = NoPass
    /\ issued = NoIssued
    /\ now = Now0
    /\ sc = NoScore
    /\ ext = NoExtract
    /\ \E sym \in {None} \cup SymbolTexts :
          tv = [pc |-> "symbol", sym |-> sym, ret |-> <<>>, symbols |-> {}]

\* sym = normalize_symbol(r.get("Symbol", ""))
Normalize ==
    /\ tv.pc = "symbol"
    /\ tv' = [tv EXCEPT !.pc = "normalized", !.ret = normalize_symbol(tv.sym)]
    /\ UNCHANGED <<db, tx, seqs, drv, pass, issued, now, sc, ext>>

\* if 1 <= len(sym) <= 5 and sym.isalpha(): symbols.add(sym)
Filter ==
    /\ tv.pc = "normalized"
    /\ tv' = [tv EXCEPT !.pc = "filtered",
                        !.symbols = IF accepted(tv.ret) THEN {tv.ret} ELSE {}]
    /\ UNCHANGED <<db, tx, seqs, drv, pass, issued, now, sc, ext>>

NextNormalize ==
    \/ Normalize
    \/ Filter

SpecNormalize == InitNormalize /\ [][NextNormalize]_vars

IsSeparator(c) == c \in {".", "-", "/"}

\* s cut before its leftmost separator, whichever it is
CutAtFirstSeparator(s) ==
    LET at == {i \in DOMAIN s : IsSeparator(s[i])}
    IN  IF at = {} THEN s
        ELSE SubSeq(s, 1, (CHOOSE i \in at : \A j \in at : i <= j) - 1)

\* s without its leading and trailing blanks
Trimmed(s) ==
    LET keep == {i \in DOMAIN s : s[i] # " "}
    IN  IF keep = {} THEN <<>>
        ELSE SubSeq(s, CHOOSE i \in keep : \A j \in keep : i <= j, Max(keep))

BRK_B == <<"b", "r", "k", ".", "b">>

\* C14: normalize_symbol returns the trimmed, upper-cased symbol cut before
\* its leftmost separator of ".", "-", "/", whichever separator that is, so
\* the result holds no separator; "BRK.B" gives "BRK"; and build accepts the
\* symbol exactly when the result is 1 to 5 letters, so not when the symbol
\* begins with a separator
C14_NormalizeSymbol ==
    /\ normalize_symbol(upper(BRK_B)) = <<"B", "R", "K">>
    /\ normalize_symbol(BRK_B) = <<"B", "R", "K">>
    /\ tv.pc \in {"normalized", "filtered"} =>
          /\ tv.ret = CutAtFirstSeparator(upper(Trimmed(Or(tv.sym, <<>>))))
          /\ \A i \in DOMAIN tv.ret : ~IsSeparator(tv.ret[i])
    /\ tv.pc = "filtered" =>
          /\ tv.symbols = IF /\ Len(tv.ret) \in 1..SYMBOL_MAX
                             /\ \A i \in DOMAIN tv.ret : tv.ret[i] \in UPPER
                          THEN {tv.ret} ELSE {}
          /\ (Trimmed(Or(tv.sym, <<>>)) # <<>>
              /\ IsSeparator(Head(Trimmed(Or(tv.sym, <<>>))))) => tv.symbols = {}

\* C14 witness: a symbol whose separators come in the order "/", "." was cut
\* at the "/" and accepted
C14_Witness ==
    /\ tv.pc = "filtered"
    /\ tv.sym = <<"b", "/", "b", ".", "b">>
    /\ tv.symbols = {<<"B">>}

-----------------------------------------------------------------------------
(* fetch and build (specification SpecRegistry) *)

\* SRC, in the order of the dict
SRC == <<"nasdaqlisted", "otherlisted">>

HeaderLine == [kind |-> "header",
               fields |-> <<"Symbol", "ETF", "Test Issue", "NextShares">>]
FooterLine == [kind |-> "footer", fields |-> <<"File Creation Time: 1103202621:31">>]

DataLine(symbol, etf, test, nextshares) ==
    [kind |-> "data", fields |-> <<symbol, etf, test, nextshares>>]

\* the data lines the feeds can hold
DataLines ==
    { DataLine(<<"B","R","K",".","B">>, <<"N">>, <<"N">>, <<"N">>),
      DataLine(<<" ","b","r","k">>, <<"Y">>, <<"N">>, <<"N">>),
      DataLine(<<"G","O","O","G","L","E">>, <<"N">>, <<"N">>, <<"N">>),
      DataLine(<<"A","M","C">>, <<"N">>, <<"y">>, <<"N">>),
      [kind |-> "data", fields |-> << <<"A","M","C">>, <<>>, <<"N">> >>],
      DataLine(<<"A","A">>, <<"N">>, <<"N">>, <<"Y">>) }

\* the bodies a request can return, as lines: nothing, the footer alone, the
\* header alone, and the header with data lines, each with or without footer
Bodies ==
    LET data == UNION {[1..n -> DataLines] : n \in 1..MaxRows}
    IN  {<<>>, <<FooterLine>>, <<HeaderLine>>, <<HeaderLine, FooterLine>>}
        \cup {<<HeaderLine>> \o d : d \in data}
        \cup {<<HeaderLine>> \o d \o <<FooterLine>> : d \in data}

\* text[-1].startswith("File Creation Time:")
IsFooter(line) == line.kind = "footer"

\* csv.DictReader(text, delimiter="|"): the first line names the fields, a
\* short line leaves the fields it lacks at None
DictReader(text) ==
    IF text = <<>> THEN <<>>
    ELSE LET names == text[1].fields
         IN  [i \in 1..(Len(text) - 1) |->
                [k \in Range(names) |->
                   LET at == CHOOSE j \in DOMAIN names : names[j] = k
                   IN  IF at <= Len(text[i + 1].fields)
                       THEN text[i + 1].fields[at] ELSE None]]

\* the rows fetch reads from a body, <<>> when it raises ValueError
read_rows(body) ==
    LET text == IF body # <<>> /\ IsFooter(body[Len(body)])
                THEN SubSeq(body, 1, Len(body) - 1) ELSE body
    IN  DictReader(text)

\* row.get(key, default)
Get(row, key, default) == IF key \in DOMAIN row THEN row[key] ELSE default

\* an eligibility test that does not look at NextShares
is_equity_issue_NoNextShares(row) ==
    /\ upper(Or(Get(row, "ETF", <<"N">>), <<"N">>)) # <<"Y">>
    /\ upper(Or(Get(row, "Test Issue", <<"N">>), <<"N">>)) # <<"Y">>

is_equity_issue(row) ==
    /\ upper(Or(Get(row, "ETF", <<"N">>), <<"N">>)) # <<"Y">>
    /\ upper(Or(Get(row, "Test Issue", <<"N">>), <<"N">>)) # <<"Y">>
    /\ upper(Or(Get(row, "NextShares", <<"N">>), <<"N">>)) # <<"Y">>

\* symbols = set(); for r in all_rows: ...
RECURSIVE build_symbols(_)
build_symbols(all_rows) ==
    IF all_rows = <<>> THEN {}
    ELSE LET r   == Head(all_rows)
             sym == normalize_symbol(Get(r, "Symbol", <<>>))
         IN  (IF is_equity_issue(r) /\ accepted(sym) THEN {sym} ELSE {})
             \cup build_symbols(Tail(all_rows))

\* the order of str: by code point, a proper prefix first
Ord(c) == CHOOSE k \in DOMAIN ALPHA_UP : ALPHA_UP[k] = c

RECURSIVE StrLess(_, _)
StrLess(a, b) ==
    IF a = <<>> THEN b # <<>>
    ELSE IF b = <<>> THEN FALSE
    ELSE IF Head(a) = Head(b) THEN StrLess(Tail(a), Tail(b))
    ELSE Ord(Head(a)) < Ord(Head(b))

\* sorted(symbols)
RECURSIVE sorted(_)
sorted(S) ==
    IF S = {} THEN <<>>
    ELSE LET m == CHOOSE x \in S : \A y \in S \ {x} : StrLess(x, y)
         IN  <<m>> \o sorted(S \ {m})

\* build(out_csv) is entered: all_rows = [], the first fetch starts
NewFetch(feed, all_rows) ==
    [pc |-> "attempt", feed |-> feed, attempt |-> 1, last_err |-> "None",
     slept |-> <<>>, all_rows |-> all_rows, err |-> "None",
     out |-> [header |-> "", rows |-> <<>>]]

InitRegistry ==
    /\ db = EmptyStore
    /\ tx = EmptyStore
    /\ seqs = EmptySeqs
    /\ drv = [pc |-> "idle", idx |-> 0, runs |-> 0, w |-> 0]
    /\ pass = NoPass
    /\ issued = NoIssued
    /\ now = Now0
    /\ sc = NoScore
    /\ ext = NoExtract
    /\ tv = NewFetch(1, <<>>)

\* the errors of a request that fetch catches
CaughtErrors == {"URLError", "HTTPError", "TimeoutError"}

\* urlopen or r.read() raises an error of the except clause
FetchCaught(e) ==
    /\ tv.pc = "attempt"
    /\ tv' = [tv EXCEPT !.pc = "sleep", !.last_err = e]
    /\ UNCHANGED <<db, tx, seqs, drv, pass, issued, now, sc, ext>>

\* r.read() raises ConnectionResetError, the peer having closed the
\* connection while the body was read: an OSError that is none of URLError,
\* HTTPError, TimeoutError, ValueError, so it leaves fetch and build
FetchReset ==
    /\ tv.pc = "attempt"
    /\ tv' = [tv EXCEPT !.pc = "raised", !.err = "ConnectionResetError"]
    /\ UNCHANGED <<db, tx, seqs, drv, pass, issued, now, sc, ext>>

\* the request returns a body: no row raises ValueError, else return rows and
\* build goes on to the next feed
FetchBody(body) ==
    /\ tv.pc = "attempt"
    /\ \E rows \in {read_rows(body)} :
          tv' = IF rows = <<>>
                THEN [tv EXCEPT !.pc = "sleep", !.last_err = "ValueError"]
                ELSE IF tv.feed < Len(SRC)
                THEN NewFetch(tv.feed + 1, tv.all_rows \o rows)
                ELSE [NewFetch(tv.feed, tv.all_rows \o rows) EXCEPT !.pc = "loaded"]
    /\ UNCHANGED <<db, tx, seqs, drv, pass, issued, now, sc, ext>>

\* time.sleep(1 + attempt), then the next attempt, or after the last one
\* raise RuntimeError
Sleep ==
    /\ tv.pc = "sleep"
    /\ tv' = IF tv.attempt < RETRIES
             THEN [tv EXCEPT !.pc = "attempt", !.attempt = @ + 1,
                             !.slept = Append(@, 1 + tv.attempt)]
             ELSE [tv EXCEPT !.pc = "raised", !.err = "RuntimeError",
                             !.slept = Append(@, 1 + tv.attempt)]
    /\ UNCHANGED <<db, tx, seqs, drv, pass, issued, now, sc, ext>>

\* build: the symbols of all_rows, written sorted under the header "symbol"
Write ==
    /\ tv.pc = "loaded"
    /\ tv' = [tv EXCEPT !.pc = "written",
                        !.out = [header |-> "symbol",
                                 rows |-> sorted(build_symbols(tv.all_rows))]]
    /\ UNCHANGED <<db, tx, seqs, drv, pass, issued, now, sc, ext>>

NextRegistry ==
    \/ \E e \in CaughtErrors : FetchCaught(e)
    \/ FetchReset
    \/ \E body \in Bodies : FetchBody(body)
    \/ Sleep
    \/ Write

SpecRegistry == InitRegistry /\ [][NextRegistry]_vars

\* C13: fetch gives up only after RETRIES failed attempts: whenever an error
\* leaves fetch, every one of the RETRIES attempts was made and failed
C13_RaisesOnlyAfterAllAttempts ==
    tv.pc = "raised" => (tv.attempt = RETRIES /\ Len(tv.slept) = RETRIES)


\* a row is flagged when one of its three flags is Y, in either case
Flagged(row) ==
    \E k \in {"ETF", "Test Issue", "NextShares"} \cap DOMAIN row :
       row[k] \in {<<"Y">>, <<"y">>}

\* the registry the rows are to give: the normalized symbols of 1 to 5
\* letters of the rows that are not flagged
Registry(all_rows) ==
    {n \in {normalize_symbol(r["Symbol"]) : r \in {x \in Range(all_rows) : ~Flagged(x)}} :
        Len(n) \in 1..SYMBOL_MAX /\ \A i \in DOMAIN n : n[i] \in UPPER}

\* C15 as stated: the file lists, in ascending order and once each, exactly
\* the normalized symbols of the rows none of whose flags is "Y"
C15_RegistryIsUnionOfNormalized ==
    tv.pc = "written" =>
       /\ Range(tv.out.rows) =
             {normalize_symbol(r["Symbol"]) : r \in {x \in Range(tv.all_rows) :
                 \A k \in {"ETF", "Test Issue", "NextShares"} : x[k] # <<"Y">>}}
       /\ \A i, j \in DOMAIN tv.out.rows :
             i < j => StrLess(tv.out.rows[i], tv.out.rows[j])

\* C15, amended: the file lists, in ascending order and once each, exactly
\* the normalized symbols of 1 to 5 letters of the rows none of whose flags is
\* Y or y; a symbol is listed as soon as one unflagged row gives it
C15_RegistryIsFilteredUnion ==
    tv.pc = "written" =>
       /\ tv.out.header = "symbol"
       /\ Range(tv.out.rows) = Registry(tv.all_rows)
       /\ \A i, j \in DOMAIN tv.out.rows :
             i < j => StrLess(tv.out.rows[i], tv.out.rows[j])

\* C15 witness: the feeds gave BRK.B unflagged after an ETF row " brk", an
\* unflagged AMC with an empty and a missing flag, and an unflagged GOOGLE;
\* the file lists AMC and BRK
C15_Witness ==
    /\ tv.pc = "written"
    /\ tv.out.rows = << <<"A","M","C">>, <<"B","R","K">> >>
    /\ Len(tv.all_rows) = 4
    /\ tv.all_rows[1]["Symbol"] = <<" ","b","r","k">>
    /\ tv.all_rows[2]["Symbol"] = <<"B","R","K",".","B">>
    /\ tv.all_rows[3]["Symbol"] = <<"G","O","O","G","L","E">>
    /\ tv.all_rows[4]["NextShares"] = None

-----------------------------------------------------------------------------
(* Further properties of the scraper (specification Spec) *)

\* the payload snapshot of a source post, and of a source comment of post post_id
PostSnapshot(p) ==
    [id |-> p.id, subreddit |-> p.subreddit, author |-> str_author(p.author),
     title |-> p.title, selftext |-> p.selftext, url |-> p.url,
     permalink |-> p.permalink, score |-> p.score, num_comments |-> p.num_comments]

CommentSnapshot(c, post_id) ==
    [id |-> c.id, post_id |-> post_id, author |-> str_author(c.author),
     body |-> c.body, score |-> c.score, created_utc |-> c.created_utc]

PostUpsertStep    == pass.pc = "author-resolved" /\ pass'.pc = "post-upserted"
CommentUpsertStep == pass.pc = "comment-author" /\ pass'.pc = "comment-upserted"

\* C16 as stated: after any upsert of a post or comment, insert or update, the
\* row's raw_json is the snapshot of the record passed to that upsert
C16_SnapshotOfEveryUpsert ==
    [][/\ PostUpsertStep =>
             \A i \in RowsWith(tx'.posts, "reddit_id", Listing[pass.pi].id) :
                tx'.posts[i].raw_json = PostSnapshot(Listing[pass.pi])
       /\ CommentUpsertStep =>
             \A i \in RowsWith(tx'.comments, "reddit_id", Comments[pass.ci].id) :
                tx'.comments[i].raw_json = CommentSnapshot(Comments[pass.ci], pass.post_id)
      ]_vars

\* C16, amended: an upsert that inserts a post or comment stores the snapshot
\* of the record passed to it; an upsert that finds the row leaves its raw_json
\* as it was, so raw_json stays the snapshot taken at the insert
C16_SnapshotOfInsertOnly ==
    [][/\ PostUpsertStep =>
             \A i \in RowsWith(tx'.posts, "reddit_id", Listing[pass.pi].id) :
                IF RowsWith(tx.posts, "reddit_id", Listing[pass.pi].id) = {}
                THEN tx'.posts[i].raw_json = PostSnapshot(Listing[pass.pi])
                ELSE tx'.posts[i].raw_json = tx.posts[i].raw_json
       /\ CommentUpsertStep =>
             \A i \in RowsWith(tx'.comments, "reddit_id", Comments[pass.ci].id) :
                IF RowsWith(tx.comments, "reddit_id", Comments[pass.ci].id) = {}
                THEN tx'.comments[i].raw_json =
                        CommentSnapshot(Comments[pass.ci], pass.post_id)
                ELSE tx'.comments[i].raw_json = tx.comments[i].raw_json
       /\ (PostUpsertStep \/ CommentUpsertStep) =>
             /\ RowsWith(tx'.posts, "reddit_id", Listing[pass.pi].id) # {}
             /\ CommentUpsertStep =>
                   RowsWith(tx'.comments, "reddit_id", Comments[pass.ci].id) # {}
      ]_vars

\* C16 witness: a stored post and its comment have been upserted again from
\* changed records, and their raw_json still hold the first records
C16_Witness ==
    /\ pass.pc = "comment-upserted"
    /\ pass.ci = 1
    /\ \E i \in DOMAIN tx.posts : \E j \in DOMAIN tx.comments :
          /\ tx.posts[i].reddit_id = Listing[pass.pi].id
          /\ tx.posts[i].score = Listing[pass.pi].score
          /\ tx.posts[i].raw_json # PostSnapshot(Listing[pass.pi])
          /\ tx.posts[i].raw_json.score # tx.posts[i].score
          /\ tx.comments[j].reddit_id = Comments[1].id
          /\ tx.comments[j].raw_json # CommentSnapshot(Comments[1], pass.post_id)
          /\ tx.comments[j].raw_json.body # Comments[1].body

\* the steps a pass may take from one position to the next
PassOrder ==
    {<<"none", "start">>,
     <<"start", "subreddit-resolved">>,
     <<"subreddit-resolved", "author-resolved">>,
     <<"author-resolved", "post-upserted">>,
     <<"post-upserted", "tickers-linked">>,
     <<"tickers-linked", "comment-author">>,
     <<"tickers-linked", "comments-ingested">>,
     <<"comment-author", "comment-upserted">>,
     <<"comment-upserted", "comment-linked">>,
     <<"comment-linked", "comment-author">>,
     <<"comment-linked", "comments-ingested">>,
     <<"comments-ingested", "author-resolved">>}

\* the pass ends: by an exception, or by its commit
PassRaiseStep  == pass.pc # "none" /\ pass'.pc = "none" /\ drv'.pc = "except"
PassCommitStep == pass.pc # "none" /\ pass'.pc = "none" /\ drv'.pc # "except"

Ids(rows) == {r.id : r \in Range(rows)}

\* every reference of a stored row is to a stored row
References(st) ==
    /\ \A p \in Range(st.posts) :
          p.subreddit_id \in Ids(st.subreddits) /\ p.author_id \in Ids(st.authors)
    /\ \A c \in Range(st.comments) :
          c.post_id \in Ids(st.posts) /\ c.author_id \in Ids(st.authors)
    /\ \A l \in Range(st.post_tickers) :
          l.post_id \in Ids(st.posts) /\ l.ticker_id \in Ids(st.tickers)
    /\ \A l \in Range(st.comment_tickers) :
          l.comment_id \in Ids(st.comments) /\ l.ticker_id \in Ids(st.tickers)

Authored(st) ==
    {<<r.author_id, r.raw_json.author>> : r \in Range(st.posts)}
    \cup {<<r.author_id, r.raw_json.author>> : r \in Range(st.comments)}

\* C18: two stored posts or comments have the same author_id only if their
\* source authors are the same account or are both deleted, and the row
\* "u_deleted" is the author of deleted authors only
C18_AuthorMappingInjective ==
    /\ \A x, y \in Authored(tx) : x[1] = y[1] => x[2] = y[2]
    /\ \A a \in Range(tx.authors) : \A x \in Authored(tx) :
          (a.val = author_name(NoAuthor) /\ x[1] = a.id) => x[2] = str_author(NoAuthor)

\* the subreddits whose pass completed in the current run, and the reddit ids
\* of the posts and of the comments their listings hold
Completed == {TARGET_SUBREDDITS[k] : k \in 1..(drv.idx - 1)}

CompletedPosts ==
    UNION {{p.id : p \in Range(hot(name, HOT_LIMIT, drv.w))} : name \in Completed}

CompletedComments ==
    UNION {UNION {{c.id : c \in Range(p.comments)} :
                     p \in Range(hot(name, HOT_LIMIT, drv.w))} : name \in Completed}

\* C19: the rollback of a failing pass and the rollback of the driver's
\* handler leave the committed store as it was and drop the failing pass's
\* writes from the connection's view; after a first run that failed the store
\* holds the subreddits, posts and comments of the passes that completed, all
\* of them and no others
C19_CompletedPassesStayCommitted ==
    /\ [][/\ PassRaiseStep => (db' = db /\ tx' = db)
          /\ (drv.pc = "except" /\ drv'.pc = "failed") =>
                (db' = db /\ tx' = db /\ tx = db)
         ]_vars
    /\ []((drv.pc = "failed" /\ drv.runs = 1) =>
            /\ tx = db
            /\ {s.val : s \in Range(db.subreddits)} = Completed
            /\ {p.reddit_id : p \in Range(db.posts)} = CompletedPosts
            /\ {c.reddit_id : c \in Range(db.comments)} = CompletedComments
            /\ \A p \in Range(db.posts) :
                  \A name \in Completed : \A q \in Range(hot(name, HOT_LIMIT, drv.w)) :
                     q.id = p.reddit_id =>
                        {x.val : x \in {t \in Range(db.tickers) :
                            \E l \in Range(db.post_tickers) :
                               l.post_id = p.id /\ l.ticker_id = t.id}}
                        = extract_tickers(post_text(q)))

\* C19 witness: the pass for the first subreddit completed, the pass for the
\* second failed after writes of its own, and the run has ended: the store
\* holds the first pass's post and comments and nothing of the second
C19_Witness ==
    /\ drv.pc = "failed"
    /\ drv.runs = 1
    /\ drv.idx = 2
    /\ \E t \in issued.rb : t[1] = "authors"
    /\ Len(db.posts) = 1
    /\ Len(db.comments) = 2
    /\ {s.val : s \in Range(db.subreddits)} = {TARGET_SUBREDDITS[1]}

-----------------------------------------------------------------------------
(* Scraping, scoring and aggregation interleaved (specification SpecScore) *)

\* C20: after an aggregate_daily run, whatever scrape runs, scoring runs and
\* aggregations came before, the keys of daily_sentiment are exactly the keys
\* that have a linked and scored post or comment, each key has one row, and
\* that row holds the count, weight_sum and sentiment of the current data;
\* no step removes a post, a comment, a ticker, a link or a sentiment row or
\* changes a creation date, and no step removes a row of daily_sentiment
C20_NoStaleRows ==
    /\ [](JustAggregated =>
            /\ \A r \in Range(db.daily_sentiment) : <<r.ticker, r.date>> \in Keys(db)
            /\ \A k \in Keys(db) : \A C \in {Contributors(db, k[1], k[2])} :
                  /\ C = {} => DailyRows(db, k[1], k[2]) = {}
                  /\ C # {} =>
                        /\ Cardinality(DailyRows(db, k[1], k[2])) = 1
                        /\ \A i \in DailyRows(db, k[1], k[2]) :
                              /\ HoldsAggregate(db.daily_sentiment[i], C)
                              /\ WeightSum(C) = 0
                                    => db.daily_sentiment[i].sentiment = <<>>)
    /\ [][db' # db =>
            /\ {<<p.id, p.created_utc>> : p \in Range(db.posts)}
                  \subseteq {<<p.id, p.created_utc>> : p \in Range(db'.posts)}
            /\ {<<c.id, c.created_utc>> : c \in Range(db.comments)}
                  \subseteq {<<c.id, c.created_utc>> : c \in Range(db'.comments)}
            /\ Range(db.tickers) \subseteq Range(db'.tickers)
            /\ Range(db.post_tickers) \subseteq Range(db'.post_tickers)
            /\ Range(db.comment_tickers) \subseteq Range(db'.comment_tickers)
            /\ Range(SentimentIds(db, "posts")) \subseteq Range(SentimentIds(db', "posts"))
            /\ Range(SentimentIds(db, "comments"))
                  \subseteq Range(SentimentIds(db', "comments"))
            /\ {<<r.ticker, r.date>> : r \in Range(db.daily_sentiment)}
                  \subseteq {<<r.ticker, r.date>> : r \in Range(db'.daily_sentiment)}
         ]_vars

\* C20 witness: the source was scraped twice, the comment c1 naming GME at
\* first and AMC later; after scoring and aggregations in between, the last
\* aggregation leaves rows for both (GME, day) and (AMC, day) that count the
\* post and the comment
C20_Witness ==
    /\ JustAggregated
    /\ drv.runs = 2
    /\ AllScored(db)
    /\ \E d \in 0..(now \div DayLen) :
          /\ Cardinality(Contributors(db, GME, d)) = 2
          /\ Cardinality(Contributors(db, AMC, d)) = 2
          /\ \E i \in DailyRows(db, GME, d) : db.daily_sentiment[i].count = 2
          /\ \E i \in DailyRows(db, AMC, d) : db.daily_sentiment[i].count = 2

====
